---- MODULE Spec2Model ----
(***************************************************************************)
(* Model of operational-simstrat.                                          *)
(*                                                                         *)
(*  - the dependency-aware task scheduler, functions/parallel.py           *)
(*    run_parallel_tasks: the main thread's submit/wait/drain/reap loop,   *)
(*    the ThreadPoolExecutor's worker threads, feed_the_workers and run,   *)
(*    at the granularity of the statements between which CPython may       *)
(*    switch threads;                                                      *)
(*  - the site pipeline, model.py Simstrat.process.                        *)
(***************************************************************************)
EXTENDS Naturals, Integers, Sequences, FiniteSets, Bags, TLC

VARIABLES
    \* ---- run_parallel_tasks (functions/parallel.py) ----
    tasks,        \* the task list: the sequence of the tasks' keys, in list order
    inflow,       \* key -> the task's "lake_model_inflow" entry as configured
    deps,         \* key -> task["dependencies"], a list mutated in place
    status,       \* key -> task["status"]; "none" while the key is not set
    q,            \* queue.Queue(): the ready queue
    workq,        \* the executor's pending work items, in submission order
    threads,      \* bag of the work items the pool's threads are executing
    completed,    \* finished futures still in future_to_task, by result kind
    doneSnap,     \* the set `done` returned by the last wait(), by result kind
    mainpc,       \* position of the main thread
    mainExc,      \* the exception that left run_parallel_tasks, or "none"
    summary,      \* the three lists logged at the end, or the string "none"
    max_workers,  \* args["max_workers"]
    debug,        \* args["debug"]
    outcome,      \* key -> what code_function does for the task
    \* ---- observers of the scheduler (no counterpart in the code) ----
    execCount,    \* key -> number of times code_function was entered
    enqCount,     \* key -> number of times the task was put on q
    okReturned,   \* keys whose code_function has returned without raising
    raisedKeys,   \* keys whose code_function has raised
    lateStart,    \* keys whose code_function was entered after one had raised
    \* ---- Simstrat.process (model.py), one site ----
    pargs,        \* args: the flags snapshot, couple_aed2, run, upload
    snapshot,     \* self.snapshot
    pstate,       \* "between" stages, "in" a stage, "done" or "raised"
    stage,        \* the stage last begun, or "none"
    \* ---- observers of the pipeline (no counterpart in the code) ----
    begun,        \* the stages begun so far, in order
    returned,     \* the stages that have returned without raising
    \* ---- Simstrat.set_simulation_run_period (model.py) ----
    period_in,    \* what the method reads: args, parameters, the Results
                  \* directory, the clock
    period,       \* what it leaves on self, and how it ended
    period_pc,    \* "begin", "returned", "raised", or "later" once process
                  \* has gone on to the next stage
    \* ---- the preparation stages of Simstrat on the simulation directory ----
    disk,         \* path (relative to simulation_dir) -> what is there
    snapshots,    \* dates D with a file Results/simulation-snapshot_D.dat
    prep_in,      \* parameters, args and the state of the remote data
    self,         \* self: the parameters the stages set, and the run period
    prep_pc,      \* the stage process calls next, "raised", "end" or "idle"
    runs,         \* number of runs of process begun on this directory
    \* ---- observers of the preparation stages ----
    first,        \* the inputs of the first run and the files it left
    profiled,     \* default_initial_conditions was called in this run
    \* ---- detect_gaps (functions/general.py) ----
    gap_in,       \* the arguments: arr, start, end, max_allowable_gap
    gaps,         \* the list returned
    gap_pc,       \* "begin" or "returned"
    \* ---- one quantity series through create_forcing_file or ----
    \* ---- create_inflow_files (model.py) ----
    ser_in,       \* the quantity, the time axis and the data as downloaded
    ser_data,     \* the quantity's data array
    ser_pc,       \* the step last done on the series, or "raised"
    ser_snapshot, \* self.snapshot, read by the fill step
    ser_previous, \* the rows of the previous run's file, read by the fill step
    ser_file,     \* the rows of the file the stage has written, {} before
    \* ---- observer of the series ----
    ser_prev,     \* the data array before the step last done
    \* ---- meteodata_from_meteostations, one parameter (functions/forcing.py) ----
    rc_in,        \* start, end and the stations of `forcing` that have the parameter
    rc_df,        \* df: {} while False, else {rows}, the rows being <<time, value>>
    rc_gaps,      \* gaps: {} while False, else {the list of gaps}
    rc_stats,     \* mean and std of the station last fetched in the first branch
    rc_i,         \* the index in `forcing` of the station the loop is at
    rc_g,         \* the index in gaps of the gap the inner loop is at
    rc_pc,        \* "loop", "returned" or "raised"
    rc_raw,       \* raw_data[p_id]: {} while not set, else {array}
    \* ---- observer of the reconciliation ----
    rc_log,       \* the calls of call_url made: station, branch, outcome
    rc_prev,      \* df before the step last done
    rc_new        \* df_new of the splice last done

schedVars == <<tasks, inflow, deps, status, q, workq, threads, completed,
               doneSnap, mainpc, mainExc, summary, max_workers, debug, outcome,
               execCount, enqCount, okReturned, raisedKeys, lateStart>>

pipeVars == <<pargs, snapshot, pstate, stage, begun, returned>>

periodVars == <<period_in, period, period_pc>>

prepVars == <<disk, snapshots, prep_in, self, prep_pc, runs, first, profiled>>

gapVars == <<gap_in, gaps, gap_pc>>

seriesVars == <<ser_in, ser_data, ser_pc, ser_snapshot, ser_previous, ser_file,
               ser_prev>>

reconVars == <<rc_in, rc_df, rc_gaps, rc_stats, rc_i, rc_g, rc_pc, rc_raw,
              rc_log, rc_prev, rc_new>>

vars == <<schedVars, pipeVars, periodVars, prepVars, gapVars, seriesVars,
          reconVars>>

\* the frame of each part of the program
nonSchedVars == <<pipeVars, periodVars, prepVars, gapVars, seriesVars,
    reconVars>>
nonPipeVars == <<schedVars, periodVars, prepVars, gapVars, seriesVars,
    reconVars>>
nonPeriodVars == <<schedVars, pipeVars, prepVars, gapVars, seriesVars,
    reconVars>>
nonPrepVars == <<schedVars, pipeVars, periodVars, gapVars, seriesVars,
    reconVars>>
nonGapVars == <<schedVars, pipeVars, periodVars, prepVars, seriesVars,
    reconVars>>
nonSeriesVars == <<schedVars, pipeVars, periodVars, prepVars, gapVars,
    reconVars>>
nonReconVars == <<schedVars, pipeVars, periodVars, prepVars, gapVars,
    seriesVars>>

-----------------------------------------------------------------------------
(* Bounds *)

\* max_workers ranges over 1..MaxWorkers
MaxWorkers == 2

\* dates range over the days 0..MaxDate
MaxDate == 4

\* process is run up to MaxRuns times on one simulation directory
MaxRuns == 2

\* detect_gaps is given up to MaxArr timestamps
MaxArr == 2

\* a series has up to MaxLen time steps
MaxLen == 4

\* the most stations that serve one parameter
MaxStations == 2

-----------------------------------------------------------------------------
(* Helpers over sequences *)

Range(s) == {s[i] : i \in 1..Len(s)}

\* list.remove(x): removes the first occurrence only
ListRemove(s, x) ==
    LET i == CHOOSE n \in 1..Len(s) : s[n] = x /\ \A m \in 1..(n-1) : s[m] # x
    IN  SubSeq(s, 1, i-1) \o SubSeq(s, i+1, Len(s))

NoDup(s) == \A i, j \in 1..Len(s) : s[i] = s[j] => i = j

-----------------------------------------------------------------------------
(* The configured sites: lake_parameters.json after Config.load *)

Absent == [kind |-> "absent", s |-> "", l |-> <<>>]
Str(x) == [kind |-> "str", s |-> x, l |-> <<>>]
List(x) == [kind |-> "list", s |-> "", l |-> x]

\* general.process_input
process_input(input_text) ==
    IF (input_text.kind = "str" /\ input_text.s = "")
         \/ (input_text.kind = "list" /\ input_text.l = <<>>)
         \/ (input_text.kind = "list" /\ input_text.l = <<"">>)
    THEN <<>>
    ELSE IF input_text.kind = "str" THEN <<input_text.s>>
    ELSE input_text.l

\* the keys that are not keys of scheduled tasks are left out
initial_dependencies_scheduled_only(entry) ==
    IF entry.kind # "absent"
    THEN SelectSeq(process_input(entry), LAMBDA d : d \in Range(tasks))
    ELSE <<>>

\* run_parallel_tasks, lines 11-15
initial_dependencies(entry) ==
    IF entry.kind # "absent" THEN process_input(entry) ELSE <<>>

Site(ks, f) == [tasks |-> ks, inflow |-> [k \in Range(ks) |-> f[k]]]

ABC == <<"A", "B", "C">>
ABCD == <<"A", "B", "C", "D">>

\* The keys a "lake_model_inflow" entry may name.  "X" is the key of a lake
\* that is left out of the selection.
InflowKeys == {"A", "B", "C", "X"}

\* The "lake_model_inflow" entries of a site: none, one key as a string, and
\* lists of two keys (repeats included).
InflowEntries ==
    {Absent}
        \cup {Str(k) : k \in InflowKeys}
        \cup {List(<<a, b>>) : a \in InflowKeys, b \in InflowKeys}

\* The site selections the scheduler is run on: every selection of three
\* sites; one with every spelling of an empty entry; and two selections of
\* four sites: two independent sites, a consumer of one of them and a
\* consumer of that consumer, in list order and in reverse list order.
Sites ==
    {Site(ABC, f) : f \in [Range(ABC) -> InflowEntries]}
        \cup {Site(ABC, [A |-> Str(""), B |-> List(<<>>), C |-> List(<<"">>)]),
              Site(ABCD, [A |-> Absent, B |-> Absent, C |-> Str("A"), D |-> Str("C")]),
              Site(ABCD, [A |-> List(<<"B">>), B |-> List(<<"C">>), C |-> Absent, D |-> Absent])}

Keys == Range(tasks)
N == Len(tasks)

\* the dependency lists as configured (before any removal)
deps0 == [k \in Keys |-> initial_dependencies(inflow[k])]

-----------------------------------------------------------------------------
(* Futures *)

FutKinds == {"ok", "exec", "value"}
NoFutures == [k \in FutKinds |-> 0]
Total(f) == f["ok"] + f["exec"] + f["value"]
Finish(kind) == [completed EXCEPT ![kind] = @ + 1]

\* len(future_to_task) once `done` has been deleted from it
Outstanding == Len(workq) + BagCardinality(threads) + Total(completed)

Thread(item, pc, i) == [item |-> item, pc |-> pc, i |-> i]
Replace(old, new) == (threads (-) SetToBag({old})) (+) SetToBag({new})
Drop(old) == threads (-) SetToBag({old})

-----------------------------------------------------------------------------
(* Initial state: run_parallel_tasks lines 8-15 and the submit of line 48 *)

SchedInit ==
    /\ \E site \in Sites :
         /\ tasks = site.tasks
         /\ inflow = site.inflow
    /\ deps = deps0
    /\ status = [k \in Keys |-> "none"]
    /\ q = <<>>
    /\ workq = <<"load">>
    /\ threads = EmptyBag
    /\ completed = NoFutures
    /\ doneSnap = NoFutures
    /\ mainpc = "wait"
    /\ mainExc = "none"
    /\ summary = "none"
    /\ max_workers \in 1..MaxWorkers
    /\ debug \in BOOLEAN
    /\ outcome = [k \in Keys |-> "unknown"]
    /\ execCount = [k \in Keys |-> 0]
    /\ enqCount = [k \in Keys |-> 0]
    /\ okReturned = {}
    /\ raisedKeys = {}
    /\ lateStart = {}

-----------------------------------------------------------------------------
(* The thread pool: ThreadPoolExecutor(max_workers=args["max_workers"]) *)

\* the pool without its bound on the number of threads
ThreadFree_unbounded == TRUE

\* a pool thread is free to take the next work item
ThreadFree == BagCardinality(threads) < max_workers

\* A pool thread takes the oldest pending work item.  For run(task) this
\* is where code_function(task, args) is entered.
TakeWork ==
    /\ workq # <<>>
    /\ ThreadFree
    /\ LET item == Head(workq) IN
         /\ workq' = Tail(workq)
         /\ IF item = "load"
            THEN /\ threads' = threads (+) SetToBag({Thread("load", "feed", 1)})
                 /\ UNCHANGED <<execCount, lateStart>>
            ELSE /\ threads' = threads (+) SetToBag({Thread(item, "exec", 0)})
                 /\ execCount' = [execCount EXCEPT ![item] = @ + 1]
                 /\ lateStart' = IF raisedKeys # {} THEN lateStart \cup {item}
                                 ELSE lateStart
    /\ UNCHANGED <<tasks, inflow, deps, status, q, completed, doneSnap, mainpc,
                   mainExc, summary, max_workers, debug, outcome, enqCount,
                   okReturned, raisedKeys>>
    /\ UNCHANGED nonSchedVars

-----------------------------------------------------------------------------
(* feed_the_workers, lines 17-24 *)

\* line 22 without the test of the dependency list
feed_ready_ignores_dependencies(d, s) == s = "waiting"

\* line 22
feed_ready(d, s) == Len(d) = 0 /\ s = "waiting"

\* the thread has finished the loop body for tasks[t.i]
FeedAdvance(t) ==
    IF t.i < N
    THEN /\ threads' = Replace(t, Thread(t.item, "feed", t.i + 1))
         /\ completed' = completed
    ELSE /\ threads' = Drop(t)
         /\ completed' = Finish("ok")

\* lines 20-22: default the status, test the task
FeedTest(t) ==
    /\ t.pc = "feed"
    /\ LET k == tasks[t.i]
           s == IF status[k] = "none" THEN "waiting" ELSE status[k]
       IN  /\ status' = [status EXCEPT ![k] = s]
           /\ IF feed_ready(deps[k], s)
              THEN /\ threads' = Replace(t, Thread(t.item, "feed_mark", t.i))
                   /\ completed' = completed
              ELSE FeedAdvance(t)
    /\ UNCHANGED <<tasks, inflow, deps, q, workq, doneSnap, mainpc, mainExc,
                   summary, max_workers, debug, outcome, execCount, enqCount,
                   okReturned, raisedKeys, lateStart>>
    /\ UNCHANGED nonSchedVars

\* line 23
FeedMark(t) ==
    /\ t.pc = "feed_mark"
    /\ status' = [status EXCEPT ![tasks[t.i]] = "running"]
    /\ threads' = Replace(t, Thread(t.item, "feed_put", t.i))
    /\ UNCHANGED <<tasks, inflow, deps, q, workq, completed, doneSnap, mainpc,
                   mainExc, summary, max_workers, debug, outcome, execCount,
                   enqCount, okReturned, raisedKeys, lateStart>>
    /\ UNCHANGED nonSchedVars

\* line 24
FeedPut(t) ==
    /\ t.pc = "feed_put"
    /\ q' = Append(q, tasks[t.i])
    /\ enqCount' = [enqCount EXCEPT ![tasks[t.i]] = @ + 1]
    /\ FeedAdvance(t)
    /\ UNCHANGED <<tasks, inflow, deps, status, workq, doneSnap, mainpc,
                   mainExc, summary, max_workers, debug, outcome, execCount,
                   okReturned, raisedKeys, lateStart>>
    /\ UNCHANGED nonSchedVars

-----------------------------------------------------------------------------
(* run(task), lines 26-45 *)

\* lines 35-37 without the comparison of the keys
mark_failed_every_task(st, key) == [k \in DOMAIN st |-> "failed"]

\* lines 35-37
mark_failed(st, key) == [k \in DOMAIN st |-> IF k = key THEN "failed" ELSE st[k]]

\* lines 43-44, for the list element t
mark_succeeded(st, key, t) == IF key = t THEN [st EXCEPT ![t] = "succeeded"] ELSE st

\* code_function returns: the else branch of the try, line 38
ExecReturn(t) ==
    /\ t.pc = "exec"
    /\ outcome[t.item] \in {"unknown", "ok"}
    /\ outcome' = [outcome EXCEPT ![t.item] = "ok"]
    /\ okReturned' = okReturned \cup {t.item}
    /\ threads' = Replace(t, Thread(t.item, "succ", 1))
    /\ UNCHANGED <<tasks, inflow, deps, status, q, workq, completed, doneSnap,
                   mainpc, mainExc, summary, max_workers, debug, execCount,
                   enqCount, raisedKeys, lateStart>>
    /\ UNCHANGED nonSchedVars

\* code_function raises: lines 31-37
ExecRaise(t) ==
    /\ t.pc = "exec"
    /\ outcome[t.item] \in {"unknown", "raise"}
    /\ outcome' = [outcome EXCEPT ![t.item] = "raise"]
    /\ raisedKeys' = raisedKeys \cup {t.item}
    /\ IF debug
       THEN \* line 34: the future ends with the exception
            /\ threads' = Drop(t)
            /\ completed' = Finish("exec")
            /\ status' = status
       ELSE /\ status' = mark_failed(status, t.item)
            /\ threads' = Replace(t, Thread(t.item, "feed", 1))
            /\ completed' = completed
    /\ UNCHANGED <<tasks, inflow, deps, q, workq, doneSnap, mainpc, mainExc,
                   summary, max_workers, debug, execCount, enqCount,
                   okReturned, lateStart>>
    /\ UNCHANGED nonSchedVars

\* the thread has finished the body of the loop of line 40 for tasks[t.i]
SuccAdvance(t) ==
    IF t.i < N
    THEN threads' = Replace(t, Thread(t.item, "succ", t.i + 1))
    ELSE threads' = Replace(t, Thread(t.item, "feed", 1))

\* line 41, the membership test; when it is false, lines 43-44
SuccTest(t) ==
    /\ t.pc = "succ"
    /\ LET k == tasks[t.i] IN
         IF t.item \in Range(deps[k])
         THEN /\ threads' = Replace(t, Thread(t.item, "succ_remove", t.i))
              /\ status' = status
         ELSE /\ status' = mark_succeeded(status, t.item, k)
              /\ SuccAdvance(t)
    /\ UNCHANGED <<tasks, inflow, deps, q, workq, completed, doneSnap, mainpc,
                   mainExc, summary, max_workers, debug, outcome, execCount,
                   enqCount, okReturned, raisedKeys, lateStart>>
    /\ UNCHANGED nonSchedVars

\* line 42, list.remove, then lines 43-44.  remove raises ValueError when
\* the key is no longer in the list; nothing in run catches it.
SuccRemove(t) ==
    /\ t.pc = "succ_remove"
    /\ LET k == tasks[t.i] IN
         IF t.item \in Range(deps[k])
         THEN /\ deps' = [deps EXCEPT ![k] = ListRemove(@, t.item)]
              /\ status' = mark_succeeded(status, t.item, k)
              /\ SuccAdvance(t)
              /\ completed' = completed
         ELSE /\ threads' = Drop(t)
              /\ completed' = Finish("value")
              /\ UNCHANGED <<deps, status>>
    /\ UNCHANGED <<tasks, inflow, q, workq, doneSnap, mainpc, mainExc, summary,
                   max_workers, debug, outcome, execCount, enqCount,
                   okReturned, raisedKeys, lateStart>>
    /\ UNCHANGED nonSchedVars

-----------------------------------------------------------------------------
(* The main thread, lines 47-65 *)

\* line 50: wait(..., FIRST_COMPLETED) returns the futures that are done
Wait ==
    /\ mainpc = "wait"
    /\ Total(completed) > 0
    /\ doneSnap' = completed
    /\ completed' = NoFutures
    /\ mainpc' = "drain"
    /\ UNCHANGED <<tasks, inflow, deps, status, q, workq, threads, mainExc,
                   summary, max_workers, debug, outcome, execCount, enqCount,
                   okReturned, raisedKeys, lateStart>>
    /\ UNCHANGED nonSchedVars

\* lines 51-53
Drain ==
    /\ mainpc = "drain"
    /\ IF q # <<>>
       THEN /\ q' = Tail(q)
            /\ workq' = Append(workq, Head(q))
            /\ mainpc' = mainpc
       ELSE /\ mainpc' = "reap"
            /\ UNCHANGED <<q, workq>>
    /\ UNCHANGED <<tasks, inflow, deps, status, threads, completed, doneSnap,
                   mainExc, summary, max_workers, debug, outcome, execCount,
                   enqCount, okReturned, raisedKeys, lateStart>>
    /\ UNCHANGED nonSchedVars

\* the loop of line 49 goes on while future_to_task is not empty
loop_continues == Outstanding > 0

\* lines 54-56 and the loop test of line 49.  future.result() re-raises the
\* exception of a future of `done`; the exception leaves the loop and the
\* with block, whose exit waits for the pool.
Reap ==
    /\ mainpc = "reap"
    /\ doneSnap' = NoFutures
    /\ \/ /\ \E kind \in {"exec", "value"} :
               /\ doneSnap[kind] > 0
               /\ mainExc' = kind
          /\ mainpc' = "shutdown"
       \/ /\ doneSnap["exec"] = 0 /\ doneSnap["value"] = 0
          /\ mainExc' = mainExc
          /\ mainpc' = IF loop_continues THEN "wait" ELSE "summary"
    /\ UNCHANGED <<tasks, inflow, deps, status, q, workq, threads, completed,
                   summary, max_workers, debug, outcome, execCount, enqCount,
                   okReturned, raisedKeys, lateStart>>
    /\ UNCHANGED nonSchedVars

\* executor.shutdown(wait=True) on the way out with the exception: the pool
\* finishes every work item already submitted, then the exception leaves
\* run_parallel_tasks.
Shutdown ==
    /\ mainpc = "shutdown"
    /\ workq = <<>>
    /\ threads = EmptyBag
    /\ mainpc' = "raised"
    /\ UNCHANGED <<tasks, inflow, deps, status, q, workq, threads, completed,
                   doneSnap, mainExc, summary, max_workers, debug, outcome,
                   execCount, enqCount, okReturned, raisedKeys, lateStart>>
    /\ UNCHANGED nonSchedVars

\* lines 58-60 with every task that did not succeed listed as failed
report_failed_as_not_succeeded(st) ==
    [waiting   |-> SelectSeq(tasks, LAMBDA k : st[k] = "waiting"),
     succeeded |-> SelectSeq(tasks, LAMBDA k : st[k] = "succeeded"),
     failed    |-> SelectSeq(tasks, LAMBDA k : st[k] # "succeeded")]

\* lines 58-60
report(st) ==
    [waiting   |-> SelectSeq(tasks, LAMBDA k : st[k] = "waiting"),
     succeeded |-> SelectSeq(tasks, LAMBDA k : st[k] = "succeeded"),
     failed    |-> SelectSeq(tasks, LAMBDA k : st[k] = "failed")]

\* lines 58-66
Summary ==
    /\ mainpc = "summary"
    /\ summary' = report(status)
    /\ mainpc' = "returned"
    /\ UNCHANGED <<tasks, inflow, deps, status, q, workq, threads, completed,
                   doneSnap, mainExc, max_workers, debug, outcome, execCount,
                   enqCount, okReturned, raisedKeys, lateStart>>
    /\ UNCHANGED nonSchedVars

-----------------------------------------------------------------------------

\* a pool thread executes its next statement
Worker ==
    \/ \E t \in BagToSet(threads) : FeedTest(t)
    \/ \E t \in BagToSet(threads) : FeedMark(t)
    \/ \E t \in BagToSet(threads) : FeedPut(t)
    \/ \E t \in BagToSet(threads) : ExecReturn(t)
    \/ \E t \in BagToSet(threads) : ExecRaise(t)
    \/ \E t \in BagToSet(threads) : SuccTest(t)
    \/ \E t \in BagToSet(threads) : SuccRemove(t)

Main == Wait \/ Drain \/ Reap \/ Shutdown \/ Summary

-----------------------------------------------------------------------------
(* Simstrat.process, model.py lines 109-133 *)

\* the calls of process, in the order of the source text
Stages ==
    << "create_bathymetry_file", "create_grid_file",
       "create_output_depths_file", "create_output_time_resolution_file",
       "set_simulation_run_period", "prepare_snapshot",
       "create_initial_conditions_file", "create_absorption_file",
       "create_forcing_file", "create_inflow_files", "create_aed2_files",
       "create_par_file", "run_simulation", "post_process", "upload" >>

StageIndex(name) == CHOOSE i \in 1..Len(Stages) : Stages[i] = name

\* the conditions with post_process outside the test of the run flag
stage_called_post_process_unconditional(name, a, snap) ==
    CASE name = "prepare_snapshot"  -> snap
      [] name = "create_aed2_files" -> a.couple_aed2
      [] name = "run_simulation"    -> a.run
      [] name = "upload"            -> a.run /\ a.upload
      [] OTHER                      -> TRUE

\* the condition under which process makes the call
stage_called(name, a, snap) ==
    CASE name = "prepare_snapshot"  -> snap
      [] name = "create_aed2_files" -> a.couple_aed2
      [] name = "run_simulation"    -> a.run
      [] name = "post_process"      -> a.run
      [] name = "upload"            -> a.run /\ a.upload
      [] OTHER                      -> TRUE

\* the next call process makes after `prev` has returned ("none": at entry),
\* or "end" when the try block is left
next_stage(prev, a, snap) ==
    LET from == IF prev = "none" THEN 0 ELSE StageIndex(prev)
        later == {i \in (from + 1)..Len(Stages) : stage_called(Stages[i], a, snap)}
    IN  IF later = {} THEN "end"
        ELSE Stages[CHOOSE i \in later : \A j \in later : i <= j]

PipeInit ==
    /\ pargs \in [snapshot : BOOLEAN, couple_aed2 : BOOLEAN, run : BOOLEAN,
                  upload : BOOLEAN]
    /\ snapshot = pargs.snapshot          \* __init__, line 87
    /\ pstate = "between"
    /\ stage = "none"
    /\ begun = <<>>
    /\ returned = {}

\* process makes its next call, or leaves the try block
BeginStage ==
    /\ pstate = "between"
    /\ LET n == next_stage(stage, pargs, snapshot) IN
         IF n = "end"
         THEN /\ pstate' = "done"
              /\ UNCHANGED <<stage, begun>>
         ELSE /\ pstate' = "in"
              /\ stage' = n
              /\ begun' = Append(begun, n)
    /\ UNCHANGED <<pargs, snapshot, returned>>
    /\ UNCHANGED nonPipeVars

\* The call returns.  set_simulation_run_period may clear self.snapshot
\* (lines 229, 236, 246).
StageReturns ==
    /\ pstate = "in"
    /\ pstate' = "between"
    /\ returned' = returned \cup {stage}
    /\ IF stage = "set_simulation_run_period"
       THEN snapshot' \in {snapshot, FALSE}
       ELSE snapshot' = snapshot
    /\ UNCHANGED <<pargs, stage, begun>>
    /\ UNCHANGED nonPipeVars

\* The call raises: lines 130-133, process raises ValueError.
StageRaises ==
    /\ pstate = "in"
    /\ pstate' = "raised"
    /\ UNCHANGED <<pargs, snapshot, stage, begun, returned>>
    /\ UNCHANGED nonPipeVars

-----------------------------------------------------------------------------
(* Simstrat.set_simulation_run_period (model.py) *)

\* Dates are day numbers.  The "%Y%m%d" strings of the arguments and of the
\* snapshot file names are fixed-width, so their order as strings is the
\* order of the dates they name; a date string is modelled by its date.
Dates == 0..MaxDate

\* an optional value (False when not given): the empty set, or a singleton
Opt(S) == {{}} \cup {{d} : d \in S}
TheDate(o) == CHOOSE d \in o : TRUE

Max(S) == CHOOSE m \in S : \A x \in S : x <= m
Min(S) == CHOOSE m \in S : \A x \in S : m <= x

\* metadata_from_forcing: the groups of quantities of which one is required
required ==
    << <<"air_temperature">>, <<"wind_speed">>, <<"wind_direction">>,
       <<"global_radiation">>, <<"vapour_pressure", "relative_humidity">> >>

\* the "variables" of one station's metadata, as the API returns them
Station(names, s, e) == [p \in names |-> [start_date |-> s, end_date |-> e]]

Base4 == {"air_temperature", "wind_speed", "wind_direction", "global_radiation"}

\* the metadata of the configured forcing stations: one station reporting
\* every quantity; a station without vapour pressure completed by a second
\* one; a configuration in which no station reports the wind speed
ForcingInputs ==
    {<<Station(Base4 \cup {"vapour_pressure"}, s, e)>> :
         s \in {0, 1}, e \in {MaxDate - 1, MaxDate}}
    \cup {<< Station(Base4 \cup {"relative_humidity", "precipitation"},
                     0, MaxDate),
             Station({"air_temperature", "vapour_pressure"},
                     1, MaxDate - 1) >>}
    \cup {<<Station((Base4 \ {"wind_speed"}) \cup {"vapour_pressure"},
                    0, MaxDate)>>}

\* metadata_from_forcing: each reported start date is moved one day on
\* (line 21); per quantity the earliest start and the latest end over the
\* stations; the latest of those starts and the earliest of those ends over
\* the required quantities that are reported
metadata_from_forcing(forcing) ==
    LET has(p) == {i \in 1..Len(forcing) : p \in DOMAIN forcing[i]}
        start(p) == Min({forcing[i][p].start_date + 1 : i \in has(p)})
        end(p) == Max({forcing[i][p].end_date : i \in has(p)})
        listed == {p \in UNION {Range(required[r]) : r \in 1..Len(required)} :
                       has(p) # {}}
        error == \E r \in 1..Len(required) :
                     \A p \in Range(required[r]) : has(p) = {}
    IN  IF error
        THEN [exc |-> "ValueError", start |-> 0, end |-> 0]
        ELSE [exc |-> "none",
              start |-> Max({start(p) : p \in listed}),
              end |-> Min({end(p) : p \in listed})]

\* lines 223-254 with the priorities exchanged: a snapshot before the
\* explicit start date
pick_start_snapshot_first(a, forcing_start, listing) ==
    IF a.snapshot /\ listing # {}
    THEN [exc |-> "none", snapshot |-> TRUE, start |-> Max(listing),
          snapshot_date |-> {Max(listing)}]
    ELSE [exc |-> "none", snapshot |-> FALSE, start |-> forcing_start,
          snapshot_date |-> a.snapshot_date]

\* lines 223-254: the start date before the reference date is applied, what
\* becomes of self.snapshot and of args["snapshot_date"]; listing is the set
\* of dates D with a file Results/simulation-snapshot_D.dat
pick_start(a, forcing_start, listing) ==
    IF a.overwrite_start_date # {}
    THEN IF TheDate(a.overwrite_start_date) < forcing_start
         THEN [exc |-> "start_outside", snapshot |-> a.snapshot,
               start |-> forcing_start, snapshot_date |-> a.snapshot_date]
         ELSE [exc |-> "none", snapshot |-> FALSE,
               start |-> TheDate(a.overwrite_start_date),
               snapshot_date |-> a.snapshot_date]
    ELSE IF a.snapshot
    THEN IF a.snapshot_date # {}
         THEN IF TheDate(a.snapshot_date) \notin listing
              THEN [exc |-> "none", snapshot |-> FALSE,
                    start |-> forcing_start,
                    snapshot_date |-> a.snapshot_date]
              ELSE [exc |-> "none", snapshot |-> TRUE,
                    start |-> TheDate(a.snapshot_date),
                    snapshot_date |-> a.snapshot_date]
         ELSE IF listing = {}
              THEN [exc |-> "none", snapshot |-> FALSE,
                    start |-> forcing_start,
                    snapshot_date |-> a.snapshot_date]
              ELSE [exc |-> "none", snapshot |-> TRUE,
                    start |-> Max(listing),
                    snapshot_date |-> {Max(listing)}]
    ELSE [exc |-> "none", snapshot |-> FALSE, start |-> forcing_start,
          snapshot_date |-> a.snapshot_date]

\* lines 256-258 left out
clamp_start_never(start_date, reference_date) == start_date

\* lines 256-258
clamp_start(start_date, reference_date) ==
    IF start_date < reference_date THEN reference_date ELSE start_date

\* line 275 accepting a period that starts on its end date
period_refused_when_later(start_date, end_date) == start_date > end_date

\* line 275
period_refused(start_date, end_date) == start_date >= end_date

\* lines 260-273: the end date, or the refusal of the explicit end date
pick_end(a, forcing_end, forcing_forecast, today) ==
    LET use == a.forecast /\ forcing_forecast # {}
        end_date == IF use THEN today + TheDate(forcing_forecast)
                    ELSE forcing_end
    IN  IF a.overwrite_end_date # {}
        THEN IF TheDate(a.overwrite_end_date) > end_date
             THEN [exc |-> "end_outside", forecast |-> use, end |-> end_date]
             ELSE [exc |-> "none", forecast |-> use,
                   end |-> TheDate(a.overwrite_end_date)]
        ELSE [exc |-> "none", forecast |-> use, end |-> end_date]

\* self as __init__ leaves it (lines 87-92); candidate and exc are not
\* attributes: the start date chosen at lines 223-254, and how the call ended
self_init(in) ==
    [snapshot |-> in.args.snapshot,
     snapshot_date |-> in.args.snapshot_date,
     start_date |-> in.reference_date,
     origin_date |-> in.reference_date,
     end_date |-> in.today,
     forecast |-> FALSE,
     candidate |-> {},
     exc |-> "none"]

\* the whole method: self (and args["snapshot_date"]) when it returns or
\* raises
set_simulation_run_period(in) ==
    LET a == in.args
        md == metadata_from_forcing(in.forcing)
        s0 == self_init(in)
    IN  IF md.exc # "none" THEN [s0 EXCEPT !.exc = "forcing"]
        ELSE
        LET s1 == [s0 EXCEPT !.origin_date = md.start]
            pick == pick_start(a, md.start, in.listing)
        IN  IF pick.exc # "none" THEN [s1 EXCEPT !.exc = pick.exc]
            ELSE
            LET s2 == [s1 EXCEPT !.snapshot = pick.snapshot,
                                 !.snapshot_date = pick.snapshot_date,
                                 !.candidate = {pick.start}]
                start_date == clamp_start(pick.start, in.reference_date)
                e == pick_end(a, md.end, in.forcing_forecast, in.today)
                s3 == [s2 EXCEPT !.forecast = e.forecast]
            IN  IF e.exc # "none" THEN [s3 EXCEPT !.exc = e.exc]
                ELSE IF period_refused(start_date, e.end)
                THEN [s3 EXCEPT !.exc = "start_after_end"]
                ELSE [s3 EXCEPT !.start_date = start_date,
                                !.end_date = e.end]

\* what the method reads
PeriodInputs ==
    [args : [overwrite_start_date : Opt(Dates),
             overwrite_end_date : Opt(Dates),
             snapshot : BOOLEAN,
             snapshot_date : Opt({1, 3}),
             forecast : BOOLEAN],
     reference_date : {0, 2, 3},
     forcing : ForcingInputs,
     forcing_forecast : Opt({1}),
     listing : SUBSET {1, 2, 3},
     today : {MaxDate - 1, MaxDate}]

PeriodInit ==
    /\ period_in \in PeriodInputs
    /\ period = self_init(period_in)
    /\ period_pc = "begin"

\* process line 115
SetRunPeriod ==
    /\ period_pc = "begin"
    /\ period' = set_simulation_run_period(period_in)
    /\ period_pc' = IF period'.exc = "none" THEN "returned" ELSE "raised"
    /\ UNCHANGED period_in
    /\ UNCHANGED nonPeriodVars

\* process line 116: the method has returned and process goes on
ProcessContinues ==
    /\ period_pc = "returned"
    /\ period_pc' = "later"
    /\ UNCHANGED <<period_in, period>>
    /\ UNCHANGED nonPeriodVars

\* process lines 130-133: the exception ends process
ProcessFails ==
    /\ period_pc = "raised"
    /\ period_pc' = "failed"
    /\ UNCHANGED <<period_in, period>>
    /\ UNCHANGED nonPeriodVars

-----------------------------------------------------------------------------
(* The preparation stages of Simstrat.process on the simulation directory *)

\* what a path holds: nothing, a directory, or a file of some kind whose
\* content is the number n and the rows (time, state of the data) it was
\* written with
File(kind, n, rows) == [kind |-> kind, n |-> n, rows |-> rows]
NoFile == File("absent", 0, <<>>)
Dir == File("dir", 0, <<>>)

Paths ==
    {"Bathymetry.dat", "Grid.dat", "z_out.dat", "t_out.dat",
     "InitialConditions.dat", "InitialConditions.dat/InitialConditions.dat",
     "Absorption.dat", "Forcing.dat", "Qin.dat", "Tin.dat", "Sin.dat",
     "Qout.dat", "Settings.par", "Results/simulation-snapshot.dat"}

\* os.path.exists
Exists(d, path) == d[path].kind # "absent"
IsDir(d, path) == d[path].kind = "dir"

\* open(path, 'w') succeeds: the parent is a directory, the path is not one.
\* simulation_dir and Results are directories (__init__, lines 96-98).
CanWrite(d, path) ==
    /\ ~IsDir(d, path)
    /\ path = "InitialConditions.dat/InitialConditions.dat" =>
          IsDir(d, "InitialConditions.dat")

Write(d, path, content) == [d EXCEPT ![path] = content]

\* the result of a stage: it returned or raised, self and the directory
\* after it
Returned(s, d) == [exc |-> FALSE, site |-> s, disk |-> d]
Raised(s, d) == [exc |-> TRUE, site |-> s, disk |-> d]

\* ceil(a / b) for positive integers
CeilDiv(a, b) == (a + b - 1) \div b

\* create_bathymetry_file without the test of line 139
create_bathymetry_file_always_writes(s, d, in) ==
    IF in.parameters.bathymetry = {} THEN Raised(s, d)
    ELSE LET depth == TheDate(in.parameters.bathymetry)
         IN  Returned([s EXCEPT !.max_depth = depth],
                      Write(d, "Bathymetry.dat", File("bathymetry", depth, <<>>)))

\* create_bathymetry_file: the file's content is the maximum depth (m) of
\* the profile written; parameters give a profile or give none
create_bathymetry_file(s, d, in) ==
    IF Exists(d, "Bathymetry.dat")
    THEN Returned([s EXCEPT !.max_depth = d["Bathymetry.dat"].n], d)
    ELSE IF in.parameters.bathymetry = {} THEN Raised(s, d)
    ELSE LET depth == TheDate(in.parameters.bathymetry)
         IN  Returned([s EXCEPT !.max_depth = depth],
                      Write(d, "Bathymetry.dat", File("bathymetry", depth, <<>>)))

\* lines 167-175, in mm
grid_resolution(max_depth) ==
    IF max_depth > 20 THEN 500
    ELSE IF max_depth > 10 THEN 250
    ELSE IF max_depth > 5 THEN 125
    ELSE 50

\* create_grid_file: the file's content is the number of grid cells
create_grid_file(s, d, in) ==
    IF Exists(d, "Grid.dat")
    THEN Returned([s EXCEPT !.grid_cells = d["Grid.dat"].n], d)
    ELSE LET cells == CeilDiv(s.max_depth * 1000, grid_resolution(s.max_depth))
             grid_cells == IF cells > 1000 THEN 1000 ELSE cells
         IN  Returned([s EXCEPT !.grid_cells = grid_cells],
                      Write(d, "Grid.dat", File("grid", grid_cells, <<>>)))

\* lines 190-197, in mm
output_depth_resolution(max_depth) ==
    IF max_depth > 20 THEN 1000
    ELSE IF max_depth > 10 THEN 500
    ELSE IF max_depth > 5 THEN 250
    ELSE 100

\* create_output_depths_file: the file's content is the number of depths
create_output_depths_file(s, d, in) ==
    IF Exists(d, "z_out.dat") THEN Returned(s, d)
    ELSE Returned(s, Write(d, "z_out.dat",
             File("z_out",
                  CeilDiv(s.max_depth * 1000, output_depth_resolution(s.max_depth)),
                  <<>>)))

\* create_output_time_resolution_file: the file's content is the number of
\* model time steps per output; output_time_resolution is the default 10800
create_output_time_resolution_file(s, d, in) ==
    IF Exists(d, "t_out.dat") THEN Returned(s, d)
    ELSE IF 10800 % in.parameters.model_time_resolution # 0 THEN Raised(s, d)
    ELSE Returned(s, Write(d, "t_out.dat",
             File("t_out", 10800 \div in.parameters.model_time_resolution, <<>>)))

\* what set_simulation_run_period reads in this directory: one station
\* reporting every quantity from day 0 to day MaxDate, reference date day 0,
\* no forecast
PrepPeriodIn(in, snaps) ==
    [args |-> in.args,
     reference_date |-> 0,
     forcing |-> <<Station(Base4 \cup {"vapour_pressure"}, 0, MaxDate)>>,
     forcing_forecast |-> {},
     listing |-> snaps,
     today |-> MaxDate]

\* prepare_snapshot: copies the dated snapshot, then overwrites
\* InitialConditions.dat with a note
prepare_snapshot(s, d, snaps) ==
    IF s.period.snapshot_date = {} \/ ~(s.period.snapshot_date \subseteq snaps)
    THEN Raised(s, d)
    ELSE LET d1 == Write(d, "Results/simulation-snapshot.dat",
                         File("snapshot", TheDate(s.period.snapshot_date), <<>>))
         IN  IF ~CanWrite(d1, "InitialConditions.dat") THEN Raised(s, d1)
             ELSE Returned(s, Write(d1, "InitialConditions.dat",
                                    File("note", 0, <<>>)))

\* create_initial_conditions_file: initial_conditions_from_observations
\* returns False, the default profile is computed for the start date, and
\* write_initial_conditions joins "InitialConditions.dat" to the path it is
\* given, which already is .../InitialConditions.dat (model.py line 305,
\* write.py line 34)
create_initial_conditions_file(s, d, in) ==
    LET path == "InitialConditions.dat/InitialConditions.dat"
    IN  IF ~CanWrite(d, path) THEN Raised(s, d)
        ELSE Returned(s, Write(d, path, File("profile", s.period.start_date, <<>>)))

\* the rows of an existing file that the writers keep: those before the
\* first time of the new data (write.py lines 63-71, 104-119, 186-194)
Kept(d, path, time_min) ==
    IF Exists(d, path)
    THEN SelectSeq(d[path].rows, LAMBDA r : r[1] < time_min)
    ELSE <<>>

\* one row per day of the window, carrying the state of the data
Rows(start, end, data) == [i \in 1..(end - start + 1) |-> <<start + i - 1, data>>]

\* create_absorption_file: a row at the start and one at the end of the
\* window, merged with the earlier rows of an existing file
create_absorption_file(s, d, in) ==
    LET new == << <<s.period.start_date, in.data>>, <<s.period.end_date, in.data>> >>
        path == "Absorption.dat"
    IN  IF ~CanWrite(d, path) THEN Raised(s, d)
        ELSE Returned(s, Write(d, path,
                 File("absorption", 0, Kept(d, path, s.period.start_date) \o new)))

\* fill_forcing_data lines 289-295, fill_inflow_data lines 75-82: in
\* snapshot mode, values still missing need the file of the previous run
fill_raises(s, d, in, paths) ==
    s.period.snapshot /\ in.fill_required /\ \E f \in paths : ~Exists(d, f)

\* create_forcing_file: download, quality assurance, interpolation, fill,
\* and write_forcing_data merging with the earlier rows of an existing file
create_forcing_file(s, d, in) ==
    LET path == "Forcing.dat"
        new == Rows(s.period.start_date, s.period.end_date, in.data)
    IN  IF fill_raises(s, d, in, {path}) \/ ~CanWrite(d, path) THEN Raised(s, d)
        ELSE Returned(s, Write(d, path,
                 File("forcing", 0, Kept(d, path, s.period.start_date) \o new)))

InflowFiles == <<"Qin.dat", "Tin.dat", "Sin.dat">>

\* write_inflows, the files up to the i-th written
RECURSIVE write_inflows(_, _, _, _, _)
write_inflows(inflow_mode, s, d, in, i) ==
    IF i > Len(InflowFiles) THEN Returned(s, d)
    ELSE LET path == InflowFiles[i] IN
         IF inflow_mode = 0
         THEN write_inflows(inflow_mode, s,
                  Write(d, path, File("no_inflows", 0, <<>>)), in, i + 1)
         \* read_csv(skiprows=3) of a one-line "No inflows" file raises
         ELSE IF Exists(d, path) /\ d[path].kind # "inflow" THEN Raised(s, d)
         ELSE write_inflows(inflow_mode, s,
                  Write(d, path,
                        File("inflow", 0,
                             Kept(d, path, s.period.start_date)
                               \o Rows(s.period.start_date, s.period.end_date,
                                       in.data))),
                  in, i + 1)

\* create_inflow_files
create_inflow_files(s, d, in) ==
    LET mode == IF in.parameters.inflows THEN 2 ELSE 0
        s1 == [s EXCEPT !.inflow_mode = mode]
        w == IF mode = 2 /\ fill_raises(s, d, in, Range(InflowFiles))
             THEN Raised(s1, d)
             ELSE write_inflows(mode, s1, d, in, 1)
    IN  IF w.exc THEN w
        ELSE Returned(w.site, Write(w.disk, "Qout.dat", File("outflow", 0, <<>>)))

\* the snapshot argument create_par_file hands to update_par_file, which
\* stores it as "Continue from last snapshot" (par.py line 18); run_simulation
\* line 394 tests the same value to split the run
continue_from_last_snapshot(s, in) == in.args.snapshot

\* create_par_file: update_par_file is defined with eight positional
\* parameters (par.py line 7) and called with seven (model.py line 380), so
\* the call raises TypeError before write_par_file
create_par_file(s, d, in) == Raised(s, d)

PrepInputs ==
    [parameters : [bathymetry : Opt({8, 30}),
                   model_time_resolution : {300},
                   inflows : BOOLEAN],
     args : [overwrite_start_date : Opt({2}),
             overwrite_end_date : {{}},
             snapshot : BOOLEAN,
             snapshot_date : {{}},
             forecast : {FALSE},
             couple_aed2 : {TRUE},
             run : {FALSE},
             upload : {FALSE}],
     data : {1, 2},
     fill_required : {TRUE}]

\* self.parameters as far as the stages set them; 0: not set
NoSite == [max_depth |-> 0, grid_cells |-> 0, inflow_mode |-> 0, period |-> <<>>]

\* A simulation directory before the first run: empty, or holding a dated
\* snapshot of an earlier simulation, or a directory InitialConditions.dat.
PrepInit ==
    /\ \E ic \in {NoFile, Dir} :
         disk = [f \in Paths |-> IF f = "InitialConditions.dat" THEN ic ELSE NoFile]
    /\ snapshots \in SUBSET {1}
    /\ prep_in = <<>>
    /\ self = NoSite
    /\ prep_pc = "idle"
    /\ runs = 0
    /\ first = <<>>
    /\ profiled = FALSE

\* Simstrat(key, parameters, args) and the entry of process
BeginRun ==
    /\ prep_pc \in {"idle", "raised", "end"}
    /\ runs < MaxRuns
    /\ runs' = runs + 1
    /\ prep_in' \in PrepInputs
    /\ self' = [NoSite EXCEPT !.period = self_init(PrepPeriodIn(prep_in', snapshots))]
    /\ prep_pc' = next_stage("none", prep_in'.args, prep_in'.args.snapshot)
    /\ first' = IF runs = 1 THEN [in |-> prep_in, disk |-> disk] ELSE first
    /\ profiled' = FALSE
    /\ UNCHANGED <<disk, snapshots>>
    /\ UNCHANGED nonPrepVars

\* what process does when the stage has ended with result r
AfterStage(name, r) ==
    /\ self' = r.site
    /\ disk' = r.disk
    /\ prep_pc' = IF r.exc THEN "raised"
                  ELSE next_stage(name, prep_in.args, r.site.period.snapshot)
    /\ UNCHANGED <<snapshots, prep_in, runs, first>>
    /\ UNCHANGED nonPrepVars

CreateBathymetryFile ==
    /\ prep_pc = "create_bathymetry_file"
    /\ AfterStage(prep_pc, create_bathymetry_file(self, disk, prep_in))
    /\ UNCHANGED profiled

CreateGridFile ==
    /\ prep_pc = "create_grid_file"
    /\ AfterStage(prep_pc, create_grid_file(self, disk, prep_in))
    /\ UNCHANGED profiled

CreateOutputDepthsFile ==
    /\ prep_pc = "create_output_depths_file"
    /\ AfterStage(prep_pc, create_output_depths_file(self, disk, prep_in))
    /\ UNCHANGED profiled

CreateOutputTimeResolutionFile ==
    /\ prep_pc = "create_output_time_resolution_file"
    /\ AfterStage(prep_pc, create_output_time_resolution_file(self, disk, prep_in))
    /\ UNCHANGED profiled

SetSimulationRunPeriod ==
    /\ prep_pc = "set_simulation_run_period"
    /\ LET p == set_simulation_run_period(PrepPeriodIn(prep_in, snapshots))
       IN  AfterStage(prep_pc, [exc |-> p.exc # "none",
                                site |-> [self EXCEPT !.period = p],
                                disk |-> disk])
    /\ UNCHANGED profiled

PrepareSnapshot ==
    /\ prep_pc = "prepare_snapshot"
    /\ AfterStage(prep_pc, prepare_snapshot(self, disk, snapshots))
    /\ UNCHANGED profiled

CreateInitialConditionsFile ==
    /\ prep_pc = "create_initial_conditions_file"
    /\ profiled' = TRUE
    /\ AfterStage(prep_pc, create_initial_conditions_file(self, disk, prep_in))

CreateAbsorptionFile ==
    /\ prep_pc = "create_absorption_file"
    /\ AfterStage(prep_pc, create_absorption_file(self, disk, prep_in))
    /\ UNCHANGED profiled

CreateForcingFile ==
    /\ prep_pc = "create_forcing_file"
    /\ AfterStage(prep_pc, create_forcing_file(self, disk, prep_in))
    /\ UNCHANGED profiled

CreateInflowFiles ==
    /\ prep_pc = "create_inflow_files"
    /\ AfterStage(prep_pc, create_inflow_files(self, disk, prep_in))
    /\ UNCHANGED profiled

\* create_aed2_files logs and returns
CreateAed2Files ==
    /\ prep_pc = "create_aed2_files"
    /\ AfterStage(prep_pc, Returned(self, disk))
    /\ UNCHANGED profiled

CreateParFile ==
    /\ prep_pc = "create_par_file"
    /\ AfterStage(prep_pc, create_par_file(self, disk, prep_in))
    /\ UNCHANGED profiled

-----------------------------------------------------------------------------
(* detect_gaps, functions/general.py *)

\* A datetime is a whole number of hours since the epoch, in UTC.
\* datetime.timestamp(): seconds since the epoch
timestamp(dt) == dt * 3600

\* datetime.utcfromtimestamp(ts).replace(tzinfo=timezone.utc)
utcfromtimestamp(ts) == ts \div 3600

\* np.sort
RECURSIVE np_sort(_)
np_sort(s) ==
    IF s = <<>> THEN <<>>
    ELSE LET m == CHOOSE i \in DOMAIN s : \A j \in DOMAIN s : s[i] <= s[j]
         IN  <<s[m]>> \o np_sort(SubSeq(s, 1, m - 1) \o SubSeq(s, m + 1, Len(s)))

\* np.diff
np_diff(s) == [i \in 1..(Len(s) - 1) |-> s[i + 1] - s[i]]

\* np.where(mask)[0]: the indices from i on at which the mask is true,
\* ascending
RECURSIVE np_where(_, _)
np_where(mask, i) ==
    IF i > Len(mask) THEN <<>>
    ELSE (IF mask[i] THEN <<i>> ELSE <<>>) \o np_where(mask, i + 1)

\* the timestamps are not sorted
detect_gaps_unsorted(arr, start, end, max_allowable_gap) ==
    LET timestamps ==
            [i \in 1..(Len(arr) + 2) |->
                timestamp((<<start>> \o arr \o <<end>>)[i])]
        gaps_ == np_diff(timestamps)
        large_gap_indices ==
            np_where([i \in DOMAIN gaps_ |-> gaps_[i] > max_allowable_gap], 1)
    IN  [k \in DOMAIN large_gap_indices |->
            <<utcfromtimestamp(timestamps[large_gap_indices[k]]),
              utcfromtimestamp(timestamps[large_gap_indices[k] + 1])>>]

\* the comparison of line 213 replaced by >=
detect_gaps_at_least(arr, start, end, max_allowable_gap) ==
    LET sorted_timestamps ==
            np_sort([i \in 1..(Len(arr) + 2) |->
                        timestamp((<<start>> \o arr \o <<end>>)[i])])
        gaps_ == np_diff(sorted_timestamps)
        large_gap_indices ==
            np_where([i \in DOMAIN gaps_ |-> gaps_[i] >= max_allowable_gap], 1)
    IN  [k \in DOMAIN large_gap_indices |->
            <<utcfromtimestamp(sorted_timestamps[large_gap_indices[k]]),
              utcfromtimestamp(sorted_timestamps[large_gap_indices[k] + 1])>>]

detect_gaps(arr, start, end, max_allowable_gap) ==
    LET datetime_objects == <<start>> \o arr \o <<end>>
        timestamps == [i \in DOMAIN datetime_objects |->
                          timestamp(datetime_objects[i])]
        sorted_timestamps == np_sort(timestamps)
        gaps_ == np_diff(sorted_timestamps)
        large_gap_indices ==
            np_where([i \in DOMAIN gaps_ |-> gaps_[i] > max_allowable_gap], 1)
    IN  [k \in DOMAIN large_gap_indices |->
            <<utcfromtimestamp(sorted_timestamps[large_gap_indices[k]]),
              utcfromtimestamp(sorted_timestamps[large_gap_indices[k] + 1])>>]

\* the hours at which a reading, or an end of the window, may lie
GapTimes == {0, 12, 24, 60}

\* sequences over S of length up to n
SeqUpTo(S, n) == UNION {[1..k -> S] : k \in 0..n}

\* the default tolerance of one day, one hour, a day and a half
GapInputs ==
    {in \in [arr : SeqUpTo(GapTimes, MaxArr),
             start : GapTimes,
             end : GapTimes,
             max_allowable_gap : {3600, 86400, 129600}] :
        in.start < in.end}

GapInit ==
    /\ gap_in \in GapInputs
    /\ gaps = <<>>
    /\ gap_pc = "begin"

DetectGaps ==
    /\ gap_pc = "begin"
    /\ gaps' = detect_gaps(gap_in.arr, gap_in.start, gap_in.end,
                           gap_in.max_allowable_gap)
    /\ gap_pc' = "returned"
    /\ UNCHANGED gap_in
    /\ UNCHANGED nonGapVars

-----------------------------------------------------------------------------
(* One quantity series: quality assurance, interpolation, fill *)

\* A value of a data array is a number, {v}, or nan, {}.  Numbers are in
\* hundredths of the quantity's unit, times are in hours since the
\* reference date, and a quotient is rounded down to that resolution.
NaN == {}
Val(v) == {v}
isnan(x) == x = {}
num(x) == CHOOSE v \in x : TRUE

\* a quantity's policy; min, max and max_interpolate_gap are {} when the
\* key is absent or None, fill is "none" for None
Policy(negative_to_zero, min, max, max_interpolate_gap, fill) ==
    [negative_to_zero |-> negative_to_zero, min |-> min, max |-> max,
     max_interpolate_gap |-> max_interpolate_gap, fill |-> fill]

\* model.py lines 55-64; max_interpolate_gap in hours (7, 2 and 0.125 days)
forcing_parameters ==
    [u     |-> Policy(FALSE, {-2000}, {2000}, {168}, "mean"),
     v     |-> Policy(FALSE, {-2000}, {2000}, {168}, "mean"),
     Tair  |-> Policy(FALSE, {-4200}, {4200}, {48}, "doy"),
     sol   |-> Policy(TRUE, {}, {120000}, {3}, "doy"),
     vap   |-> Policy(FALSE, {100}, {7000}, {48}, "doy"),
     cloud |-> Policy(FALSE, {0}, {100}, {}, "none"),
     rain  |-> Policy(TRUE, {}, {}, {168}, "mean")]

\* model.py lines 65-70; max_interpolate_gap in hours (5 days)
inflow_parameters ==
    [Q |-> Policy(TRUE, {}, {150000}, {120}, "doy"),
     T |-> Policy(TRUE, {}, {3000}, {120}, "doy"),
     S |-> Policy(TRUE, {}, {50}, {120}, "doy")]

PolicyOf(source, key) ==
    IF source = "forcing" THEN forcing_parameters[key] ELSE inflow_parameters[key]

\* data[data < 0] = 0.0
negative_to_zero(p, x) ==
    IF p.negative_to_zero /\ ~isnan(x) /\ num(x) < 0 THEN Val(0) ELSE x

\* data[data < min] = np.nan
below_min(p, x) ==
    IF p.min # {} /\ ~isnan(x) /\ num(x) < num(p.min) THEN NaN ELSE x

\* a value above max replaced by max
above_max_clamped(p, x) ==
    IF p.max # {} /\ ~isnan(x) /\ num(x) > num(p.max) THEN p.max ELSE x

\* data[data > max] = np.nan
above_max(p, x) ==
    IF p.max # {} /\ ~isnan(x) /\ num(x) > num(p.max) THEN NaN ELSE x

quality_assurance_forcing_data(p, data) ==
    [i \in DOMAIN data |-> above_max(p, below_min(p, negative_to_zero(p, data[i])))]

\* only the deep inflows are looped over
quality_assurance_inflow_data(source, p, data) ==
    IF source = "deep_inflows"
    THEN [i \in DOMAIN data |->
             above_max(p, below_min(p, negative_to_zero(p, data[i])))]
    ELSE data

\* np.arange(len(data))[~np.isnan(data)]
non_nan_indices(data) ==
    np_where([i \in DOMAIN data |-> ~isnan(data[i])], 1)

\* np.interp at t between the points (t0, d0) and (t1, d1)
np_interp(t, t0, t1, d0, d1) == d0 + ((d1 - d0) * (t - t0)) \div (t1 - t0)

\* the loop of interpolate_timeseries from the i-th present value on
RECURSIVE interpolate_loop(_, _, _, _, _)
interpolate_loop(time, data, idx, max_gap_size, i) ==
    IF i > Len(idx) THEN data
    ELSE LET start_index == idx[i - 1]
             end_index == idx[i]
             gap_size == time[end_index] - time[start_index]
             d == [k \in DOMAIN data |->
                     IF start_index <= k /\ k <= end_index /\ isnan(data[k])
                     THEN Val(np_interp(time[k], time[start_index], time[end_index],
                                        num(data[start_index]), num(data[end_index])))
                     ELSE data[k]]
         IN  interpolate_loop(time,
                              IF gap_size <= max_gap_size THEN d ELSE data,
                              idx, max_gap_size, i + 1)

\* every run between two present values is filled, whatever their distance
interpolate_timeseries_any_gap(time, data, max_gap_size) ==
    interpolate_loop(time, data, non_nan_indices(data),
                     time[Len(time)] - time[1], 2)

\* only the first missing value after a present one is filled
interpolate_timeseries_one_step(time, data, max_gap_size) ==
    LET max_gap == IF max_gap_size = {} THEN time[Len(time)] - time[1]
                   ELSE num(max_gap_size)
        full == interpolate_loop(time, data, non_nan_indices(data), max_gap, 2)
    IN  [k \in DOMAIN data |->
            IF k > 1 /\ isnan(data[k]) /\ ~isnan(data[k - 1]) THEN full[k]
            ELSE data[k]]

\* max_gap_size is {} for None
interpolate_timeseries(time, data, max_gap_size) ==
    LET max_gap == IF max_gap_size = {} THEN time[Len(time)] - time[1]
                   ELSE num(max_gap_size)
    IN  interpolate_loop(time, data, non_nan_indices(data), max_gap, 2)

\* every quantity of forcing_parameters carries the key max_interpolate_gap
interpolate_forcing_data(p, time, data) ==
    interpolate_timeseries(time, data, p.max_interpolate_gap)

\* the surface inflows are interpolated without max_gap_size
interpolate_inflow_data(source, p, time, data) ==
    IF source = "deep_inflows"
    THEN interpolate_timeseries(time, data, p.max_interpolate_gap)
    ELSE interpolate_timeseries(time, data, {})

RECURSIVE SumSeq(_)
SumSeq(s) == IF s = <<>> THEN 0 ELSE num(s[1]) + SumSeq(Tail(s))

\* np.nanmean, and the mean of a pandas group: nan when nothing is present
nanmean(data) ==
    LET present == SelectSeq(data, LAMBDA x : ~isnan(x))
    IN  IF present = <<>> THEN NaN ELSE Val(SumSeq(present) \div Len(present))

\* dayofyear of reference_date + t hours, for the reference date 1981-01-01
\* and t within the years 1980 (366 days) and 1981
dayofyear(t) ==
    IF t >= 0 THEN (t \div 24) + 1 ELSE 366 + (t \div 24) + 1

fill_day_of_year(time, data, time_full, data_full) ==
    LET group(doy) ==
            np_where([k \in DOMAIN time_full |-> dayofyear(time_full[k]) = doy], 1)
        doy_avg(doy) ==
            nanmean([k \in DOMAIN group(doy) |-> data_full[group(doy)[k]]])
    IN  [i \in DOMAIN data |->
            IF isnan(data[i]) THEN doy_avg(dayofyear(time[i])) ELSE data[i]]

\* the result of the fill step
Filled(data) == [exc |-> FALSE, data |-> data]
FillRaised(data) == [exc |-> TRUE, data |-> data]

\* the missing file is an error in either mode
fill_forcing_data_needs_file(p, time, data, snapshot_, previous) ==
    IF (\E i \in DOMAIN data : isnan(data[i])) /\ previous = {}
    THEN FillRaised(data)
    ELSE Filled(data)

\* fill_forcing_data for one quantity; previous is {} when there is no
\* Forcing.dat, else {rows}, the rows being pairs <<Time, value>>
fill_forcing_data(p, time, data, snapshot_, previous) ==
    LET fill_required == \E i \in DOMAIN data : isnan(data[i])
        df == SelectSeq(num(previous), LAMBDA r : r[1] < time[1])
        time_extended == [k \in DOMAIN df |-> df[k][1]] \o time
        data_extended == [k \in DOMAIN df |-> df[k][2]] \o data
    IN  IF ~fill_required THEN Filled(data)
        ELSE IF snapshot_ /\ previous = {} THEN FillRaised(data)
        ELSE IF p.fill = "mean"
             THEN LET mean == IF snapshot_ THEN nanmean(data_extended)
                              ELSE nanmean(data)
                  IN  Filled([i \in DOMAIN data |->
                                 IF isnan(data[i]) THEN mean ELSE data[i]])
        ELSE IF p.fill = "doy"
             THEN IF snapshot_
                  THEN Filled(fill_day_of_year(time, data, time_extended, data_extended))
                  ELSE Filled(fill_day_of_year(time, data, time, data))
        ELSE Filled(data)

\* fill_inflow_data for one series: only the deep inflows are filled
fill_inflow_data(source, p, time, data, snapshot_, previous) ==
    IF source = "deep_inflows"
    THEN fill_forcing_data(p, time, data, snapshot_, previous)
    ELSE Filled(data)

\* the hours of the window that the model follows: three in the first day,
\* one in the third, one in the eighth
Times == {0, 1, 3, 49, 170}

\* the readings a station or a file may give for a quantity
Readings(source, key) ==
    CASE key \in {"u", "v"} -> {NaN, Val(-2100), Val(-2000), Val(500), Val(2100)}
      [] key = "Tair" -> {NaN, Val(-4300), Val(1000), Val(4200), Val(5500)}
      [] key = "sol" -> {NaN, Val(-500), Val(30000), Val(120000), Val(130000)}
      [] key = "vap" -> {NaN, Val(50), Val(100), Val(1500), Val(7100)}
      [] key = "cloud" -> {NaN, Val(-10), Val(0), Val(50), Val(110)}
      [] key = "rain" -> {NaN, Val(-1), Val(0), Val(2)}
      [] key = "Q" -> {NaN, Val(-100), Val(1000), Val(150000), Val(150100)}
      [] key = "T" -> {NaN, Val(-100), Val(1200), Val(3000), Val(3100)}
      [] key = "S" -> {NaN, Val(-10), Val(15), Val(50), Val(60)}

Quantities ==
    ({"forcing"} \X {"u", "v", "Tair", "sol", "vap", "cloud", "rain"})
      \cup ({"deep_inflows", "surface_inflows"} \X {"Q", "T", "S"})

\* the time axes: strictly increasing, of 1 to MaxLen steps
TimeAxes ==
    {t \in SeqUpTo(Times, MaxLen) :
        /\ t # <<>>
        /\ \A i \in 1..(Len(t) - 1) : t[i] < t[i + 1]}

SeriesInputs ==
    UNION {UNION {[source : {qk[1]}, key : {qk[2]}, time : {t},
                   data : [1..Len(t) -> Readings(qk[1], qk[2])]] :
                  t \in TimeAxes} :
           qk \in Quantities}

\* the previous run's file: absent, or one row of the first day of 1980
\* holding a reading the policy accepts
PreviousFiles(source, key) ==
    {{}} \cup {{<< <<-8784, x>> >>} :
                  x \in {y \in Readings(source, key) :
                            /\ ~isnan(y)
                            /\ quality_assurance_forcing_data(
                                   PolicyOf(source, key), <<y>>) = <<y>>}}

SeriesInit ==
    /\ ser_in \in SeriesInputs
    /\ ser_data = ser_in.data
    /\ ser_prev = ser_in.data
    /\ ser_pc = "downloaded"
    /\ ser_snapshot = FALSE
    /\ ser_previous = {}
    /\ ser_file = {}

\* create_forcing_file line 322, create_inflow_files line 340
QualityAssurance ==
    /\ ser_pc = "downloaded"
    /\ ser_data' =
          IF ser_in.source = "forcing"
          THEN quality_assurance_forcing_data(
                   PolicyOf(ser_in.source, ser_in.key), ser_data)
          ELSE quality_assurance_inflow_data(
                   ser_in.source, PolicyOf(ser_in.source, ser_in.key), ser_data)
    /\ ser_prev' = ser_data
    /\ ser_pc' = "quality_assured"
    /\ UNCHANGED <<ser_in, ser_snapshot, ser_previous, ser_file>>
    /\ UNCHANGED nonSeriesVars

Interpolated(source, key, time, data) ==
    IF source = "forcing"
    THEN interpolate_forcing_data(PolicyOf(source, key), time, data)
    ELSE interpolate_inflow_data(source, PolicyOf(source, key), time, data)

\* create_forcing_file line 324, create_inflow_files line 342
Interpolate ==
    /\ ser_pc = "quality_assured"
    /\ ser_data' = Interpolated(ser_in.source, ser_in.key, ser_in.time, ser_data)
    /\ ser_prev' = ser_data
    /\ ser_pc' = "interpolated"
    /\ UNCHANGED <<ser_in, ser_snapshot, ser_previous, ser_file>>
    /\ UNCHANGED nonSeriesVars

\* the interpolation applied to its own output
InterpolateAgain ==
    /\ ser_pc = "interpolated"
    /\ ser_data' = Interpolated(ser_in.source, ser_in.key, ser_in.time, ser_data)
    /\ ser_prev' = ser_data
    /\ ser_pc' = "interpolated_again"
    /\ UNCHANGED <<ser_in, ser_snapshot, ser_previous, ser_file>>
    /\ UNCHANGED nonSeriesVars

\* create_forcing_file line 326, create_inflow_files line 344
Fill ==
    /\ ser_pc = "interpolated"
    /\ \E snap \in BOOLEAN, previous \in PreviousFiles(ser_in.source, ser_in.key) :
         LET p == PolicyOf(ser_in.source, ser_in.key)
             r == IF ser_in.source = "forcing"
                  THEN fill_forcing_data(p, ser_in.time, ser_data, snap, previous)
                  ELSE fill_inflow_data(ser_in.source, p, ser_in.time, ser_data,
                                        snap, previous)
         IN  /\ ser_snapshot' = snap
             /\ ser_previous' = previous
             /\ ser_data' = r.data
             /\ ser_pc' = IF r.exc THEN "raised" ELSE "filled"
    /\ ser_prev' = ser_data
    /\ UNCHANGED <<ser_in, ser_file>>
    /\ UNCHANGED nonSeriesVars

\* write_forcing_data lines 186-200, write_inflows lines 104-131, for one
\* series: the rows of the file found that lie before the first time of the
\* new data, then the new rows, a row holding nan being left out
write_series(time, data, previous) ==
    LET df == IF previous = {} THEN <<>>
              ELSE SelectSeq(num(previous), LAMBDA r : r[1] < time[1])
        all == df \o [i \in DOMAIN time |-> <<time[i], data[i]>>]
    IN  SelectSeq(all, LAMBDA r : ~isnan(r[2]))

\* create_forcing_file line 329, create_inflow_files line 346
WriteSeries ==
    /\ ser_pc = "filled"
    /\ ser_file' = {write_series(ser_in.time, ser_data, ser_previous)}
    /\ ser_pc' = "written"
    /\ UNCHANGED <<ser_in, ser_data, ser_snapshot, ser_previous, ser_prev>>
    /\ UNCHANGED nonSeriesVars

-----------------------------------------------------------------------------
(* meteodata_from_meteostations, functions/forcing.py lines 65-118, for    *)
(* one parameter                                                           *)

\* A fraction is a pair <<p, q>> with q > 0.  A mean is a fraction and a
\* standard deviation is given by its square, a fraction; both are {} when
\* nan.  A reading is {} when nan, else {[x, adj]}: with adj = {} it is the
\* number x, with adj = {a} it is (x - a.data_mean) / a.data_std * a.std +
\* a.mean.
Plain(x) == {[x |-> x, adj |-> {}]}
Rebased(x, data_mean, data_std, std, mean) ==
    {[x |-> x, adj |-> {[data_mean |-> data_mean, data_std |-> data_std,
                         std |-> std, mean |-> mean]}]}

RECURSIVE np_sum(_)
np_sum(xs) == IF xs = <<>> THEN 0 ELSE xs[1] + np_sum(Tail(xs))

\* Series.mean() and np.nanmean of the numbers xs
np_nanmean(xs) == IF xs = <<>> THEN {} ELSE {<<np_sum(xs), Len(xs)>>}

\* the square of the standard deviation of the numbers xs with ddof degrees
\* of freedom taken off: the sum of (x - mean)^2 over Len(xs) - ddof
variance(xs, ddof) ==
    LET n == Len(xs)
    IN  IF n - ddof <= 0 THEN {}
        ELSE {<<np_sum([i \in DOMAIN xs |->
                           (n * xs[i] - np_sum(xs)) * (n * xs[i] - np_sum(xs))]),
                n * n * (n - ddof)>>}

\* Series.std(): ddof = 1
pd_std(xs) == variance(xs, 1)

\* np.nanstd: ddof = 0
np_nanstd(xs) == variance(xs, 0)

\* general.py lines 196-204; arithmetic on a nan mean or std gives nan
adjust_data_to_mean_and_std(arr, std, mean) ==
    LET data_mean == np_nanmean(arr)
        data_std == np_nanstd(arr)
    IN  IF data_mean = {} \/ data_std = {} \/ num(data_std)[1] = 0
        THEN [i \in DOMAIN arr |-> Plain(arr[i])]
        ELSE IF std = {} \/ mean = {}
             THEN [i \in DOMAIN arr |-> NaN]
             ELSE [i \in DOMAIN arr |->
                      Rebased(arr[i], num(data_mean), num(data_std),
                              num(std), num(mean))]

\* the hours at which a station may have a reading
RcHourSeq == <<0, 24, 48, 72, 96>>
RcHours == Range(RcHourSeq)

\* strftime('%Y%m%d'): the day of a datetime
strftime(dt) == dt \div 24

\* call_url when the status is 200: the station's readings of the days
\* asked for, as rows <<time, number>>
call_url(f, start_date, end_date) ==
    LET hs == SelectSeq(RcHourSeq,
                        LAMBDA h : /\ f.data[h] # {}
                                   /\ strftime(start_date) <= strftime(h)
                                   /\ strftime(h) <= strftime(end_date))
    IN  [k \in DOMAIN hs |-> <<hs[k], num(f.data[hs[k]])>>]

\* the existing value wherever there is one
combine_first_other(a, b) == IF isnan(b) THEN a ELSE b

\* Series.combine_first
combine_first(a, b) == IF isnan(a) THEN b ELSE a

\* df.sort_values(by='time') of a set of rows with distinct times
RECURSIVE sort_values(_)
sort_values(S) ==
    IF S = {} THEN <<>>
    ELSE LET r == CHOOSE a \in S : \A b \in S : a[1] <= b[1]
         IN  <<r>> \o sort_values(S \ {r})

\* the value a frame has at a time, nan where it has no row
ValueAt(rows, t) ==
    IF \E k \in DOMAIN rows : rows[k][1] = t
    THEN rows[CHOOSE k \in DOMAIN rows : rows[k][1] = t][2]
    ELSE NaN

TimesOf(rows) == [k \in DOMAIN rows |-> rows[k][1]]

\* lines 107-112: the outer merge on time, combine_first, dropna, sort
merge_combine(df, df_new) ==
    LET ts == Range(TimesOf(df)) \cup Range(TimesOf(df_new))
        merged == {<<t, combine_first(ValueAt(df, t), ValueAt(df_new, t))>> :
                      t \in ts}
    IN  sort_values({r \in merged : ~isnan(r[2])})

\* what a station serves: at any of the hours, either the same number at
\* each or two numbers in turn
Served ==
    {[h \in RcHours |-> IF h \in P THEN {x[(h \div 24) % 2]} ELSE {}] :
        P \in SUBSET RcHours, x \in {[i \in 0..1 |-> 1], [i \in 0..1 |-> 1 + 2 * i]}}

\* the stations: the parameter's start_date and end_date and what the
\* station serves
Stations == [start_date : {0, 72}, end_date : {96}, data : Served]

ReconInit ==
    /\ rc_in \in [start : {0}, end : {96},
                  forcing : SeqUpTo(Stations, MaxStations)]
    /\ rc_df = {} /\ rc_gaps = {} /\ rc_stats = [mean |-> {}, std |-> {}]
    /\ rc_i = 1 /\ rc_g = 1 /\ rc_pc = "loop" /\ rc_raw = {}
    /\ rc_log = <<>> /\ rc_prev = {} /\ rc_new = <<>>

\* the station the loop is at
RcStation == rc_in.forcing[rc_i]

\* `not gaps`: gaps is False or the empty list
NotGaps == rc_gaps = {} \/ rc_gaps = {<<>>}

\* lines 72-92: the station is fetched and its readings become the series
FetchPrimary ==
    /\ rc_pc = "loop"
    /\ rc_i <= Len(rc_in.forcing)
    /\ NotGaps
    /\ \E ok \in BOOLEAN :
         LET start_date == Min({Max({rc_in.start, RcStation.start_date}),
                                RcStation.end_date})
             end_date == Min({rc_in.end, RcStation.end_date})
             data == call_url(RcStation, start_date, end_date)
             values == [k \in DOMAIN data |-> data[k][2]]
             df == [k \in DOMAIN data |-> <<data[k][1], Plain(data[k][2])>>]
         IN  /\ rc_log' = Append(rc_log, [station |-> rc_i, branch |-> "first",
                                          ok |-> ok])
             /\ IF ok
                THEN /\ rc_df' = {df}
                     /\ rc_stats' = [mean |-> np_nanmean(values),
                                     std |-> pd_std(values)]
                     /\ rc_gaps' = {detect_gaps(TimesOf(df), rc_in.start,
                                                rc_in.end, 86400)}
                     /\ rc_i' = rc_i + 1
                     /\ UNCHANGED rc_pc
                ELSE /\ rc_pc' = "raised"
                     /\ UNCHANGED <<rc_df, rc_stats, rc_gaps, rc_i>>
    /\ rc_prev' = rc_df
    /\ UNCHANGED <<rc_in, rc_g, rc_raw, rc_new>>
    /\ UNCHANGED nonReconVars

\* lines 93-114: one gap of the list the station is tried for
SpliceGap ==
    /\ rc_pc = "loop"
    /\ rc_i <= Len(rc_in.forcing)
    /\ ~NotGaps
    /\ rc_g <= Len(num(rc_gaps))
    /\ LET gap == num(rc_gaps)[rc_g]
       IN  IF gap[2] >= RcStation.start_date /\ gap[1] <= RcStation.end_date
           THEN \E ok \in BOOLEAN :
                  LET data == call_url(RcStation, gap[1], gap[2])
                      values_new == adjust_data_to_mean_and_std(
                                        [k \in DOMAIN data |-> data[k][2]],
                                        rc_stats.std, rc_stats.mean)
                      df_new == [k \in DOMAIN data |->
                                    <<data[k][1], values_new[k]>>]
                  IN  /\ rc_log' = Append(rc_log, [station |-> rc_i,
                                                   branch |-> "gap", ok |-> ok])
                      /\ IF ok
                         THEN /\ rc_df' = {merge_combine(num(rc_df), df_new)}
                              /\ rc_new' = df_new
                         ELSE UNCHANGED <<rc_df, rc_new>>
           ELSE UNCHANGED <<rc_log, rc_df, rc_new>>
    /\ rc_g' = rc_g + 1
    /\ rc_prev' = rc_df
    /\ UNCHANGED <<rc_in, rc_gaps, rc_stats, rc_i, rc_pc, rc_raw>>
    /\ UNCHANGED nonReconVars

\* line 115: the gaps are detected again and the loop goes to the next station
NextStation ==
    /\ rc_pc = "loop"
    /\ rc_i <= Len(rc_in.forcing)
    /\ ~NotGaps
    /\ rc_g > Len(num(rc_gaps))
    /\ rc_gaps' = {detect_gaps(TimesOf(num(rc_df)), rc_in.start, rc_in.end,
                               86400)}
    /\ rc_i' = rc_i + 1
    /\ rc_g' = 1
    /\ rc_prev' = rc_df
    /\ UNCHANGED <<rc_in, rc_df, rc_stats, rc_pc, rc_raw, rc_log, rc_new>>
    /\ UNCHANGED nonReconVars

\* lines 116-118: the left merge on the hours of the window
SetRawData ==
    /\ rc_pc = "loop"
    /\ rc_i > Len(rc_in.forcing)
    /\ rc_raw' = IF rc_df = {} THEN {}
                 ELSE {[k \in DOMAIN RcHourSeq |->
                           ValueAt(num(rc_df), RcHourSeq[k])]}
    /\ rc_pc' = "returned"
    /\ rc_prev' = rc_df
    /\ UNCHANGED <<rc_in, rc_df, rc_gaps, rc_stats, rc_i, rc_g, rc_log, rc_new>>
    /\ UNCHANGED nonReconVars

-----------------------------------------------------------------------------
(* Specifications *)

\* the part of the state a specification does not exercise
SchedIdle ==
    /\ tasks = <<>> /\ inflow = <<>> /\ deps = <<>> /\ status = <<>>
    /\ q = <<>> /\ workq = <<>> /\ threads = EmptyBag
    /\ completed = NoFutures /\ doneSnap = NoFutures
    /\ mainpc = "idle" /\ mainExc = "none" /\ summary = "none"
    /\ max_workers = 1 /\ debug = FALSE /\ outcome = <<>>
    /\ execCount = <<>> /\ enqCount = <<>>
    /\ okReturned = {} /\ raisedKeys = {} /\ lateStart = {}

PipeIdle ==
    /\ pargs = [snapshot |-> FALSE, couple_aed2 |-> FALSE, run |-> FALSE,
                upload |-> FALSE]
    /\ snapshot = FALSE
    /\ pstate = "idle"
    /\ stage = "none"
    /\ begun = <<>>
    /\ returned = {}

PeriodIdle ==
    /\ period_in = <<>>
    /\ period = <<>>
    /\ period_pc = "idle"

PrepIdle ==
    /\ disk = <<>> /\ snapshots = {} /\ prep_in = <<>> /\ self = <<>>
    /\ prep_pc = "none" /\ runs = 0 /\ first = <<>> /\ profiled = FALSE

GapIdle ==
    /\ gap_in = <<>> /\ gaps = <<>> /\ gap_pc = "idle"

SeriesIdle ==
    /\ ser_in = <<>> /\ ser_data = <<>> /\ ser_pc = "idle"
    /\ ser_snapshot = FALSE /\ ser_previous = {} /\ ser_prev = <<>>
    /\ ser_file = {}

ReconIdle ==
    /\ rc_in = <<>> /\ rc_df = {} /\ rc_gaps = {} /\ rc_stats = <<>>
    /\ rc_i = 0 /\ rc_g = 0 /\ rc_pc = "idle" /\ rc_raw = {}
    /\ rc_log = <<>> /\ rc_prev = {} /\ rc_new = <<>>

\* run_parallel_tasks
Init ==
    /\ SchedInit /\ PipeIdle /\ PeriodIdle /\ PrepIdle /\ GapIdle /\ SeriesIdle
    /\ ReconIdle

Next == TakeWork \/ Worker \/ Main

Spec == Init /\ [][Next]_vars

\* Simstrat.process
PipeSpecInit ==
    /\ PipeInit /\ SchedIdle /\ PeriodIdle /\ PrepIdle /\ GapIdle /\ SeriesIdle
    /\ ReconIdle

PipeNext == BeginStage \/ StageReturns \/ StageRaises

PipeSpec == PipeSpecInit /\ [][PipeNext]_vars

\* Simstrat.set_simulation_run_period
PeriodSpecInit ==
    /\ PeriodInit /\ SchedIdle /\ PipeIdle /\ PrepIdle /\ GapIdle /\ SeriesIdle
    /\ ReconIdle

PeriodNext == SetRunPeriod \/ ProcessContinues \/ ProcessFails

PeriodSpec == PeriodSpecInit /\ [][PeriodNext]_vars

\* the preparation stages of Simstrat.process, repeated on one directory
PrepSpecInit ==
    /\ PrepInit /\ SchedIdle /\ PipeIdle /\ PeriodIdle /\ GapIdle /\ SeriesIdle
    /\ ReconIdle

PrepNext ==
    \/ BeginRun
    \/ CreateBathymetryFile
    \/ CreateGridFile
    \/ CreateOutputDepthsFile
    \/ CreateOutputTimeResolutionFile
    \/ SetSimulationRunPeriod
    \/ PrepareSnapshot
    \/ CreateInitialConditionsFile
    \/ CreateAbsorptionFile
    \/ CreateForcingFile
    \/ CreateInflowFiles
    \/ CreateAed2Files
    \/ CreateParFile

PrepSpec == PrepSpecInit /\ [][PrepNext]_vars

\* detect_gaps
GapSpecInit ==
    /\ GapInit /\ SchedIdle /\ PipeIdle /\ PeriodIdle /\ PrepIdle /\ SeriesIdle
    /\ ReconIdle

GapNext == DetectGaps

GapSpec == GapSpecInit /\ [][GapNext]_vars

\* one quantity series through quality assurance, interpolation and fill
SeriesSpecInit ==
    /\ SeriesInit /\ SchedIdle /\ PipeIdle /\ PeriodIdle /\ PrepIdle /\ GapIdle
    /\ ReconIdle

SeriesNext ==
    QualityAssurance \/ Interpolate \/ InterpolateAgain \/ Fill \/ WriteSeries

SeriesSpec == SeriesSpecInit /\ [][SeriesNext]_vars

\* meteodata_from_meteostations, the loop over the stations for one parameter
ReconSpecInit ==
    /\ ReconInit /\ SchedIdle /\ PipeIdle /\ PeriodIdle /\ PrepIdle /\ GapIdle
    /\ SeriesIdle

ReconNext == FetchPrimary \/ SpliceGap \/ NextStation \/ SetRawData

ReconSpec == ReconSpecInit /\ [][ReconNext]_vars

-----------------------------------------------------------------------------
(* Properties of the scheduler *)

Terminated == mainpc \in {"returned", "raised"}

RECURSIVE Closure(_, _)
Closure(S, n) ==
    IF n = 0 THEN S
    ELSE Closure(S \cup UNION {Range(deps0[j]) : j \in S \cap Keys}, n - 1)

\* the keys the task depends on, directly or through other tasks
TransDeps(k) == Closure(Range(deps0[k]), Cardinality(Keys))

\* the configured dependencies form a DAG over the scheduled keys, each
\* dependency named once
IsDag ==
    \A k \in Keys :
        /\ Range(deps0[k]) \subseteq Keys
        /\ NoDup(deps0[k])
        /\ k \notin TransDeps(k)

\* number of threads inside code_function
Executing ==
    LET E == {t \in BagToSet(threads) : t.pc = "exec"}
    IN  BagCardinality([t \in E |-> CopiesIn(t, threads)])

\* C1: with debug off and a DAG of dependencies, run_parallel_tasks ends by
\* returning, and then every task whose transitive dependencies all
\* succeeded has been executed and is succeeded or failed according to what
\* its code_function did, and every task with a failed transitive
\* dependency was never executed, is still waiting and is reported as a
\* dependency failure; for the chain C -> B -> A with A failing the lists
\* are 0 succeeded, 1 failed (A), 2 waiting (B, C).
C1_DagCompletion ==
    (Terminated /\ ~debug /\ IsDag) =>
        /\ mainpc = "returned"
        /\ \A k \in Keys :
             /\ (\A d \in TransDeps(k) : status[d] = "succeeded") =>
                    /\ execCount[k] >= 1
                    /\ outcome[k] = "ok" => status[k] = "succeeded"
                    /\ outcome[k] = "raise" => status[k] = "failed"
             /\ (\E d \in TransDeps(k) : status[d] = "failed") =>
                    /\ execCount[k] = 0
                    /\ status[k] = "waiting"
                    /\ k \in Range(summary.waiting)
        /\ (/\ tasks = ABC
            /\ deps0 = [A |-> <<>>, B |-> <<"A">>, C |-> <<"B">>]
            /\ outcome["A"] = "raise") =>
               summary = [waiting |-> <<"B", "C">>, succeeded |-> <<>>,
                          failed |-> <<"A">>]

\* C2: code_function is entered for a task only after it has returned
\* without raising for every task named in the task's configured
\* dependency list.
C2_StartsAfterDependencies ==
    \A k \in Keys :
        execCount[k] > 0 => \A d \in Range(deps0[k]) : d \in okReturned

C2_Witness ==
    /\ max_workers = 2
    /\ \E k \in Keys : execCount[k] > 0 /\ Len(deps0[k]) = 2
                       /\ deps0[k][1] # deps0[k][2]

\* C3: whenever a task's status changes from waiting to running, every task
\* named in its configured dependency list already has status succeeded.
C3_ReleasedAfterSucceeded ==
    [][\A k \in Keys :
          (status[k] = "waiting" /\ status'[k] = "running") =>
              \A d \in Range(deps0[k]) : d \in Keys /\ status[d] = "succeeded"]_vars

\* C4: no task is put on the ready queue twice, and code_function is
\* entered at most once per task.
C4_ReleasedOnce ==
    \A k \in Keys : enqCount[k] <= 1 /\ execCount[k] <= 1

\* C5: at most max_workers calls of code_function are in progress.
C5_WorkerBound == Executing <= max_workers

C5_Witness ==
    /\ max_workers = 2
    /\ Executing = 2
    /\ workq # <<>>

\* C6: with debug off, an exception of code_function never reaches the main
\* thread; the step that handles it sets that task's status to failed and
\* no other; only tasks whose code_function raised are failed; and when
\* run_parallel_tasks returns, every task whose dependencies all succeeded
\* has been executed, whatever failed elsewhere.
C6_FailureIsolated ==
    /\ [](~debug =>
            /\ mainExc # "exec"
            /\ completed["exec"] = 0
            /\ doneSnap["exec"] = 0
            /\ \A k \in Keys : status[k] = "failed" => k \in raisedKeys
            /\ mainpc = "returned" =>
                 \A k \in Keys :
                    (/\ NoDup(deps0[k])
                     /\ \A d \in Range(deps0[k]) :
                           d \in Keys /\ status[d] = "succeeded")
                        => execCount[k] >= 1)
    /\ [][~debug =>
            \A k \in Keys :
               /\ (k \in raisedKeys' /\ k \notin raisedKeys) =>
                      status'[k] = "failed"
               /\ (status[k] # "failed" /\ status'[k] = "failed") =>
                      /\ k \in raisedKeys'
                      /\ \A j \in Keys \ {k} : status'[j] = status[j]]_vars

C6_Witness ==
    /\ ~debug
    /\ mainpc = "returned"
    /\ tasks = ABC
    /\ status = [A |-> "succeeded", B |-> "failed", C |-> "succeeded"]
    /\ deps0["C"] = <<"A">>

\* C7: with debug off, run_parallel_tasks ends by returning, with no task
\* executing, nothing pending in the pool and the ready queue empty.
C7_Returns ==
    (~debug /\ Terminated) =>
        /\ mainpc = "returned"
        /\ q = <<>>
        /\ workq = <<>>
        /\ threads = EmptyBag

\* C8: when run_parallel_tasks returns with debug off, every task is
\* waiting, succeeded or failed, is in exactly one of the three reported
\* lists, once, and the lists' lengths sum to the number of tasks.
C8_SummaryPartition ==
    (~debug /\ mainpc = "returned") =>
        /\ \A k \in Keys : status[k] \in {"waiting", "succeeded", "failed"}
        /\ Len(summary.waiting) + Len(summary.succeeded) + Len(summary.failed) = N
        /\ NoDup(summary.waiting \o summary.succeeded \o summary.failed)
        /\ Range(summary.waiting \o summary.succeeded \o summary.failed) = Keys

C8_Witness ==
    /\ ~debug
    /\ mainpc = "returned"
    /\ summary.waiting # <<>>
    /\ summary.succeeded # <<>>
    /\ summary.failed # <<>>

\* C9: with debug on, once code_function has raised no further task enters
\* code_function, no summary is produced, and run_parallel_tasks ends by
\* raising.
C9_FailFast ==
    debug =>
        /\ lateStart = {}
        /\ raisedKeys # {} => summary = "none" /\ mainpc # "returned"

\* a list with the element at index i removed
WithoutIndex(s, i) == SubSeq(s, 1, i - 1) \o SubSeq(s, i + 1, Len(s))

\* C27: when run_parallel_tasks has returned, the key of a succeeded task
\* occurs in no task's dependency list; and every step of the scheduler
\* either leaves every dependency list as it is or removes from one list one
\* occurrence of the key of a task whose code_function returned; the step
\* that marks a task failed changes no dependency list.
C27_DependenciesShrinkBySuccess ==
    /\ [](mainpc = "returned" =>
            \A k \in Keys : status[k] = "succeeded" =>
                \A t \in Keys : k \notin Range(deps[t]))
    /\ [][/\ \A t \in Keys :
               deps'[t] # deps[t] =>
                  \E i \in 1..Len(deps[t]) :
                     /\ deps[t][i] \in okReturned
                     /\ deps'[t] = WithoutIndex(deps[t], i)
          /\ (\E k \in Keys : status[k] # "failed" /\ status'[k] = "failed")
                => deps' = deps]_vars

\* the task's configured entry names a key that is not a scheduled task's
NamesUnscheduled(k) ==
    /\ inflow[k].kind # "absent"
    /\ \E d \in Range(process_input(inflow[k])) : d \notin Keys

\* C29: a task whose dependency list names a key that is the key of no
\* scheduled task is never executed, never leaves the status waiting, and,
\* when run_parallel_tasks returns, is in the list of the tasks with
\* dependency failures, whether or not a task failed.
C29_UnscheduledDependency ==
    \A k \in Keys :
        NamesUnscheduled(k) =>
            /\ execCount[k] = 0
            /\ enqCount[k] = 0
            /\ status[k] \in {"none", "waiting"}
            /\ mainpc = "returned" => k \in Range(summary.waiting)

\* the run has returned, no task failed, and a task naming an unscheduled
\* key is reported as a dependency failure
C29_Witness ==
    /\ mainpc = "returned"
    /\ \A k \in Keys : status[k] # "failed"
    /\ summary.failed = <<>>
    /\ summary.succeeded # <<>>
    /\ \E k \in Keys : NamesUnscheduled(k) /\ k \in Range(summary.waiting)

-----------------------------------------------------------------------------
(* Properties of run-period resolution *)

PeriodReturned == period_pc \in {"returned", "later"}

\* the earliest date from which every required quantity that a station
\* reports is available from some station (a station's data begin the day
\* after its reported start date)
EarliestCommon(forcing) ==
    LET names == {p \in UNION {Range(required[r]) : r \in 1..Len(required)} :
                     \E i \in 1..Len(forcing) : p \in DOMAIN forcing[i]}
        covered(d) == \A p \in names : \E i \in 1..Len(forcing) :
                         p \in DOMAIN forcing[i]
                         /\ forcing[i][p].start_date + 1 <= d
    IN  Min({d \in 0..(MaxDate + 1) : covered(d)})

\* C12: when set_simulation_run_period returns, the start date it chose
\* (stored as it is, or as the reference date when it is earlier than that)
\* is (1) the explicit start date if one is given; else (2) in snapshot mode
\* the requested snapshot date if that snapshot file exists, or with no date
\* requested the latest dated snapshot file; else (3) the forcing start, the
\* earliest date common to all required quantities.  With the requested
\* snapshot absent, or no snapshot on disk, it is the forcing start and
\* continuation mode is off; an explicit start date switches it off too.
C12_StartPriority ==
    PeriodReturned =>
        LET a == period_in.args
            fs == EarliestCommon(period_in.forcing)
            ls == period_in.listing
            chosen == TheDate(period.candidate)
        IN  /\ period.candidate # {}
            /\ period.start_date =
                   IF chosen < period_in.reference_date
                   THEN period_in.reference_date ELSE chosen
            /\ a.overwrite_start_date # {} =>
                   /\ chosen = TheDate(a.overwrite_start_date)
                   /\ ~period.snapshot
            /\ (a.overwrite_start_date = {} /\ a.snapshot) =>
                   /\ (a.snapshot_date # {} /\ TheDate(a.snapshot_date) \in ls)
                         => chosen = TheDate(a.snapshot_date) /\ period.snapshot
                   /\ (a.snapshot_date # {} /\ TheDate(a.snapshot_date) \notin ls)
                         => chosen = fs /\ ~period.snapshot
                   /\ (a.snapshot_date = {} /\ ls # {})
                         => /\ chosen = Max(ls)
                            /\ period.snapshot
                            /\ period.snapshot_date = {Max(ls)}
                   /\ (a.snapshot_date = {} /\ ls = {})
                         => chosen = fs /\ ~period.snapshot
            /\ (a.overwrite_start_date = {} /\ ~a.snapshot) =>
                   chosen = fs /\ ~period.snapshot

\* an explicit start date is given although a later snapshot is on disk
C12_Witness ==
    /\ PeriodReturned
    /\ period_in.args.snapshot
    /\ period_in.args.overwrite_start_date = {2}
    /\ period_in.listing = {1, 3}
    /\ period.start_date = 2

\* C13: whenever set_simulation_run_period returns, start < end and start is
\* not before the reference date, a chosen start before the reference date
\* having been raised to it; a period with start >= end is refused with an
\* error, and after an error process goes to no later stage.
C13_PeriodInvariant ==
    /\ [](PeriodReturned =>
            /\ period.start_date < period.end_date
            /\ period.start_date >= period_in.reference_date
            /\ TheDate(period.candidate) < period_in.reference_date =>
                   period.start_date = period_in.reference_date)
    /\ [](period_pc \in {"raised", "failed"} => period.exc # "none")
    /\ [][(period_pc \in {"raised", "failed"}) =>
             (period_pc' \in {"raised", "failed"})]_vars

\* the chosen start is before the reference date and is raised to it
C13_Witness ==
    /\ period_pc = "later"
    /\ TheDate(period.candidate) < period_in.reference_date
    /\ period.start_date = period_in.reference_date
    /\ period.end_date = period.start_date + 1

\* C14 as stated: with an explicit start date before the reference date,
\* set_simulation_run_period does not return.
C14_EarlyOverrideFatal ==
    (/\ period_pc # "begin"
     /\ period_in.args.overwrite_start_date # {}
     /\ TheDate(period_in.args.overwrite_start_date) < period_in.reference_date)
        => ~PeriodReturned

\* C14: an explicit start date before the forcing start is refused with an
\* error; an explicit start date from the forcing start on is never refused
\* for being before the reference date: it is raised to the reference date
\* like any other start, and the method returns unless the end date is
\* refused or the period is empty.
C14_EarlyOverride ==
    (period_pc # "begin" /\ period_in.args.overwrite_start_date # {}
        /\ metadata_from_forcing(period_in.forcing).exc = "none") =>
        LET o == TheDate(period_in.args.overwrite_start_date)
            fs == EarliestCommon(period_in.forcing)
        IN  /\ o < fs => ~PeriodReturned /\ period.exc = "start_outside"
            /\ o >= fs =>
                  /\ period.exc \in {"none", "end_outside", "start_after_end"}
                  /\ (PeriodReturned /\ o < period_in.reference_date) =>
                         period.start_date = period_in.reference_date

\* an explicit start date before the reference date, and the method returns
C14_Witness ==
    /\ PeriodReturned
    /\ period_in.args.overwrite_start_date = {1}
    /\ period_in.reference_date = 2
    /\ period.start_date = 2

-----------------------------------------------------------------------------
(* Properties of the preparation stages *)

\* the artifact(s) of each preparation stage
StageArtifacts(name) ==
    CASE name = "create_bathymetry_file" -> {"Bathymetry.dat"}
      [] name = "create_grid_file" -> {"Grid.dat"}
      [] name = "create_output_depths_file" -> {"z_out.dat"}
      [] name = "create_output_time_resolution_file" -> {"t_out.dat"}
      [] name = "prepare_snapshot" -> {"InitialConditions.dat"}
      [] name = "create_initial_conditions_file" -> {"InitialConditions.dat"}
      [] name = "create_absorption_file" -> {"Absorption.dat"}
      [] name = "create_forcing_file" -> {"Forcing.dat"}
      [] name = "create_inflow_files" -> {"Qin.dat", "Tin.dat", "Sin.dat"}
      [] name = "create_par_file" -> {"Settings.par"}
      [] OTHER -> {}

RunEnded == prep_pc \in {"raised", "end"}

\* a second run with the inputs of the first leaves the files of the first
SecondRunSameFiles ==
    (runs = 2 /\ RunEnded /\ prep_in = first.in) => disk = first.disk

SkipStages ==
    {"create_bathymetry_file", "create_grid_file", "create_output_depths_file",
     "create_output_time_resolution_file"}

SeriesStages ==
    {"create_absorption_file", "create_forcing_file", "create_inflow_files"}

Before(rows, t) == SelectSeq(rows, LAMBDA r : r[1] < t)
From(rows, t) == SelectSeq(rows, LAMBDA r : r[1] >= t)

Resolved ==
    /\ runs >= 1
    /\ self.period.candidate # {}
    /\ self.period.exc = "none"

\* C15: once the run period is resolved, in continuation mode no initial
\* profile is computed or written, the dated snapshot being copied into
\* place; in non-continuation mode the initial-conditions stage writes the
\* profile it computed to InitialConditions.dat.
C15_InitialState ==
    Resolved =>
        /\ self.period.snapshot =>
              /\ ~profiled
              /\ prep_pc \notin {"prepare_snapshot", "set_simulation_run_period"}
                   => disk["Results/simulation-snapshot.dat"].kind = "snapshot"
        /\ (~self.period.snapshot /\ profiled) =>
              disk["InitialConditions.dat"].kind = "profile"

-----------------------------------------------------------------------------
(* Properties of the gap detector *)

GapReturned == gap_pc = "returned"

\* C16 as stated: detect_gaps given an empty timestamp list returns exactly
\* one gap, equal to (start, end), for every window and every tolerance.
C16_EmptyListOneGap ==
    (GapReturned /\ gap_in.arr = <<>>) =>
        gaps = << <<gap_in.start, gap_in.end>> >>

\* C16: detect_gaps given an empty timestamp list returns exactly one gap,
\* equal to (start, end), when the window is longer than the tolerance, and
\* no gap when end - start is at most the tolerance.
C16_EmptyListGapIfLonger ==
    (GapReturned /\ gap_in.arr = <<>>) =>
        gaps = IF timestamp(gap_in.end) - timestamp(gap_in.start)
                     > gap_in.max_allowable_gap
               THEN << <<gap_in.start, gap_in.end>> >>
               ELSE <<>>

\* an empty list, a window of exactly the tolerance: no gap
C16_Witness ==
    /\ GapReturned
    /\ gap_in.arr = <<>>
    /\ timestamp(gap_in.end) - timestamp(gap_in.start) = gap_in.max_allowable_gap
    /\ gaps = <<>>

\* the collection {window_start} + timestamps + {window_end}
GapPoints == {gap_in.start, gap_in.end} \cup Range(gap_in.arr)

\* the pairs of neighbours of that collection, in seconds apart by more
\* than the tolerance
WideNeighbours ==
    {p \in GapPoints \X GapPoints :
        /\ p[1] < p[2]
        /\ \A x \in GapPoints : ~(p[1] < x /\ x < p[2])
        /\ (p[2] - p[1]) * 3600 > gap_in.max_allowable_gap}

\* C26: detect_gaps returns exactly the pairs (a, b) of consecutive
\* elements of the sorted collection {start} + timestamps + {end} with
\* b - a strictly greater than the tolerance, each once, in ascending order;
\* a difference equal to the tolerance, and a repeated timestamp, yield no
\* gap, and a series spaced below the tolerance yields the empty list.
C26_GapsExact ==
    GapReturned =>
        /\ Range(gaps) = WideNeighbours
        /\ \A i \in 1..(Len(gaps) - 1) : gaps[i][2] <= gaps[i + 1][1]
        /\ \A i \in 1..Len(gaps) : gaps[i][1] < gaps[i][2]

\* two readings at hour 24 given with the window 0..60 and the tolerance of
\* one day: the spacing of exactly one day and the repeat yield nothing,
\* the 36 hours after them are the one gap
C26_Witness ==
    /\ GapReturned
    /\ gap_in = [arr |-> <<24, 24>>, start |-> 0, end |-> 60,
                 max_allowable_gap |-> 86400]
    /\ gaps = << <<24, 60>> >>

-----------------------------------------------------------------------------
(* Properties of the quantity series *)

SerPolicy == PolicyOf(ser_in.source, ser_in.key)

\* max_gap as interpolate_timeseries is given it for this series
SerMaxGap ==
    IF ser_in.source = "surface_inflows" \/ SerPolicy.max_interpolate_gap = {}
    THEN ser_in.time[Len(ser_in.time)] - ser_in.time[1]
    ELSE num(SerPolicy.max_interpolate_gap)

\* a and b are the nearest present values around the missing position i
Bounding(data, a, i, b) ==
    /\ a < i /\ i < b
    /\ ~isnan(data[a]) /\ ~isnan(data[b])
    /\ \A k \in (a + 1)..(b - 1) : isnan(data[k])

\* C17: after interpolate_timeseries a position holds a value it did not
\* hold before if and only if it was missing and lies between a nearest
\* preceding and a nearest following present value at most max_gap apart in
\* time; the value then lies between the two bounding values.  Present
\* values are unchanged; runs whose bounding values are farther apart than
\* max_gap, and leading and trailing runs, stay missing.
C17_InterpolateFills ==
    ser_pc = "interpolated" =>
        \A i \in DOMAIN ser_data :
            /\ ~isnan(ser_prev[i]) => ser_data[i] = ser_prev[i]
            /\ isnan(ser_prev[i]) =>
                  /\ ~isnan(ser_data[i]) <=>
                        \E a, b \in DOMAIN ser_data :
                            /\ Bounding(ser_prev, a, i, b)
                            /\ ser_in.time[b] - ser_in.time[a] <= SerMaxGap
                  /\ \A a, b \in DOMAIN ser_data :
                        (Bounding(ser_prev, a, i, b) /\ ~isnan(ser_data[i])) =>
                            /\ Min({num(ser_prev[a]), num(ser_prev[b])}) <= num(ser_data[i])
                            /\ num(ser_data[i]) <= Max({num(ser_prev[a]), num(ser_prev[b])})

\* air temperature over four steps: a missing value between readings 48 h
\* apart has been filled, a trailing one has not
C17_Witness ==
    /\ ser_pc = "interpolated"
    /\ ser_in.key = "Tair"
    /\ ser_in.time = <<1, 3, 49, 170>>
    /\ isnan(ser_prev[2]) /\ ~isnan(ser_data[2])
    /\ isnan(ser_prev[4]) /\ isnan(ser_data[4])

\* C18: interpolate_timeseries applied to its own output with the same
\* max_gap returns an identical array.
C18_InterpolateIdempotent ==
    ser_pc = "interpolated_again" => ser_data = ser_prev

\* the first pass filled a missing value between two readings and left a
\* trailing one missing, and the second pass has been made
C18_Witness ==
    /\ ser_pc = "interpolated_again"
    /\ ser_in.source = "forcing"
    /\ Len(ser_data) = 4
    /\ LET qa == quality_assurance_forcing_data(SerPolicy, ser_in.data)
       IN  /\ ~isnan(qa[1]) /\ isnan(qa[2]) /\ ~isnan(ser_data[2])
           /\ ~isnan(qa[3]) /\ isnan(ser_data[4])

\* what claim C19 says of the quality-assurance step for the series at hand
BoundedByPolicy ==
    \A i \in DOMAIN ser_data :
        LET p == SerPolicy
            x == ser_prev[i]
            y == ser_data[i]
            below == p.min # {} /\ ~isnan(x) /\ num(x) < num(p.min)
            above == p.max # {} /\ ~isnan(x) /\ num(x) > num(p.max)
        IN  /\ isnan(x) => isnan(y)
            /\ (below \/ above) => isnan(y)
            /\ (~isnan(x) /\ ~below /\ ~above) =>
                  y = IF p.negative_to_zero /\ num(x) < 0 THEN Val(0) ELSE x
            /\ ~isnan(y) =>
                  /\ p.min # {} => num(p.min) <= num(y)
                  /\ p.max # {} => num(y) <= num(p.max)

HasBound == SerPolicy.min # {} \/ SerPolicy.max # {}

\* C19 as stated: after quality assurance, for every forcing and inflow
\* series with a configured bound, values outside [min, max] are missing,
\* values inside are unchanged but for negatives set to zero, and no present
\* value lies outside [min, max].
C19_BoundsAllSeries ==
    (ser_pc = "quality_assured" /\ HasBound) => BoundedByPolicy

\* C19: after quality assurance, for every forcing series and every deep
\* inflow series with a configured bound, values outside [min, max] are
\* missing (never replaced by the bound), values inside are unchanged but
\* for negatives set to zero where configured, and no present value lies
\* outside [min, max]; a surface inflow series is left as it was.
C19_BoundsForcingAndDeep ==
    ser_pc = "quality_assured" =>
        /\ (ser_in.source \in {"forcing", "deep_inflows"} /\ HasBound)
              => BoundedByPolicy
        /\ ser_in.source = "surface_inflows" => ser_data = ser_prev

\* a deep discharge series in which a reading above max has become missing
\* and a negative one zero, a reading at max being kept
C19_Witness ==
    /\ ser_pc = "quality_assured"
    /\ ser_in.source = "deep_inflows" /\ ser_in.key = "Q"
    /\ Len(ser_data) >= 3
    /\ ser_prev[1] = Val(150100) /\ isnan(ser_data[1])
    /\ ser_prev[2] = Val(-100) /\ ser_data[2] = Val(0)
    /\ ser_prev[3] = Val(150000) /\ ser_data[3] = Val(150000)

\* C20: for a forcing quantity filled by day of year, quality assurance,
\* interpolation and fill leave no missing value in a series that has at
\* least one in-range reading.
C20_DoyFillComplete ==
    (/\ ser_pc = "filled"
     /\ ser_in.source = "forcing"
     /\ SerPolicy.fill = "doy"
     /\ \E i \in DOMAIN ser_in.data :
           /\ ~isnan(ser_in.data[i])
           /\ quality_assurance_forcing_data(SerPolicy, <<ser_in.data[i]>>)
                 = <<ser_in.data[i]>>)
       => \A i \in DOMAIN ser_data : ~isnan(ser_data[i])

\* the rows of the written file, and those of the run window
WrittenRows == num(ser_file)
WindowRows == SelectSeq(WrittenRows, LAMBDA r : r[1] >= ser_in.time[1])

\* C21: the file a forcing or inflow stage has written holds exactly one row
\* for every slot of the run's time axis, and the times of its rows increase
\* strictly, whatever was missing before or after the fill step.
C21_WrittenComplete ==
    ser_pc = "written" =>
        /\ [i \in DOMAIN WindowRows |-> WindowRows[i][1]] = ser_in.time
        /\ \A i \in 1..(Len(WrittenRows) - 1) :
               WrittenRows[i][1] < WrittenRows[i + 1][1]

\* the fill step has just been taken
FillStep == ser_pc = "interpolated" /\ ser_pc' \in {"filled", "raised"}
StillMissing(data) == \E i \in DOMAIN data : isnan(data[i])

\* C22 as stated: for every series of the forcing and inflow stages the fill
\* step raises exactly when the run continues from a snapshot, a value is
\* still missing after interpolation and the previous file is not on disk;
\* once raised nothing is written and no further step is taken.
C22_FillRaisesAllSeries ==
    /\ [][FillStep =>
            (ser_pc' = "raised" <=>
               (ser_snapshot' /\ StillMissing(ser_data) /\ ser_previous' = {}))]_vars
    /\ [](ser_pc = "raised" => ser_file = {})
    /\ [][ser_pc # "raised"]_vars

\* C22 amended: the same for the forcing series and the deep-inflow series;
\* the fill step of a surface-inflow series never raises. A raising fill
\* leaves the data as it was, nothing is written and no further step is
\* taken.
C22_FillRaises ==
    /\ [][FillStep =>
            (ser_pc' = "raised" <=>
               (/\ ser_in.source \in {"forcing", "deep_inflows"}
                /\ ser_snapshot'
                /\ StillMissing(ser_data)
                /\ ser_previous' = {}))]_vars
    /\ [](ser_pc = "raised" => ser_file = {} /\ ser_data = ser_prev)
    /\ [][ser_pc # "raised"]_vars

\* both a raising fill and, in a run that does not continue from a snapshot,
\* a fill without the previous file that does not raise
C22_Witness ==
    /\ ser_pc = "raised"
    /\ ser_in.source = "deep_inflows"
    /\ ser_snapshot
    /\ ser_previous = {}
    /\ StillMissing(ser_data)

-----------------------------------------------------------------------------
(* Properties of the reconciliation of the stations *)

\* the step made a call of call_url
Fetched == Len(rc_log') = Len(rc_log) + 1
LastFetch == rc_log[Len(rc_log)]

\* two fractions are the same number
SameFraction(a, b) == a[1] * b[2] = b[1] * a[2]

\* the numbers served in df_new and the adjustment they were rebased by
NewNumbers == [k \in DOMAIN rc_new |-> num(rc_new[k][2]).x]
NewAdj == num(num(rc_new[1][2]).adj)
WasRebased ==
    /\ rc_new # <<>>
    /\ \A k \in DOMAIN rc_new :
          ~isnan(rc_new[k][2]) /\ num(rc_new[k][2]).adj # {}

\* C23: the rebased values of a splice have exactly the mean and the standard
\* deviation of the primary, the standard deviation of the rebased values
\* being taken by the estimator that gave the primary's.  The rebased values
\* are mean + (x - data_mean) * sqrt(std / data_std), std and data_std being
\* the squares: their mean is the primary's when the mean of the numbers is
\* data_mean, their standard deviation is the primary's when that of the
\* numbers is data_std, or when the primary's is zero.
C23_RebasedMoments ==
    WasRebased =>
        /\ NewAdj.mean = num(rc_stats.mean)
        /\ NewAdj.std = num(rc_stats.std)
        /\ \/ NewAdj.std[1] = 0
           \/ SameFraction(num(np_nanmean(NewNumbers)), NewAdj.data_mean)
        /\ \/ NewAdj.std[1] = 0
           \/ /\ pd_std(NewNumbers) # {}
              /\ SameFraction(num(pd_std(NewNumbers)), NewAdj.data_std)

\* C24: once the list of gaps is empty no station is fetched any more and
\* the series is not changed any more.
C24_StopsWhenComplete ==
    [][rc_gaps = {<<>>} => (rc_log' = rc_log /\ rc_df' = rc_df)]_vars

\* the step is a splice: a call of call_url in the gap branch
Spliced == Fetched /\ rc_log'[Len(rc_log')].branch = "gap"

\* C25: a splice changes no value the series has: every time that had a
\* value has the same value after it, and every other time of the series
\* has the value of the fallback's frame; a failed fetch adds nothing.
C25_SplicePreserves ==
    [][Spliced =>
         LET df == num(rc_df)
             after == num(rc_df')
         IN  /\ \A t \in Range(TimesOf(df)) : ValueAt(after, t) = ValueAt(df, t)
             /\ \A t \in Range(TimesOf(after)) \ Range(TimesOf(df)) :
                   /\ rc_log'[Len(rc_log')].ok
                   /\ ValueAt(after, t) = ValueAt(rc_new', t)]_vars

\* a splice has just added a value at a time without one and kept a value
\* where the fallback had a different one
C25_Witness ==
    /\ rc_log # <<>> /\ LastFetch.branch = "gap" /\ LastFetch.ok
    /\ rc_prev # {} /\ rc_df # rc_prev
    /\ \E t \in Range(TimesOf(num(rc_prev))) :
          /\ ~isnan(ValueAt(rc_new, t))
          /\ ValueAt(rc_new, t) # ValueAt(num(rc_prev), t)
          /\ ValueAt(num(rc_df), t) = ValueAt(num(rc_prev), t)
    /\ \E t \in Range(TimesOf(num(rc_df))) \ Range(TimesOf(num(rc_prev))) :
          ValueAt(num(rc_df), t) = ValueAt(rc_new, t)

\* C28: a failed fetch of a station after the first leaves the series as it
\* was and the loop goes on; a failed fetch of the first station leaves the
\* function with the exception.
C28_FetchFailures ==
    [][(Fetched /\ ~rc_log'[Len(rc_log')].ok) =>
         IF rc_log'[Len(rc_log')].station = 1
         THEN rc_pc' = "raised"
         ELSE rc_df' = rc_df /\ rc_pc' = "loop"]_vars

-----------------------------------------------------------------------------
(* Properties of the site pipeline *)

\* the stages of the pipeline, in order: geometry, grid, output spec (depths
\* and time resolution), run period, initial state, absorption, forcing,
\* inflow, control file, external run, post-process, upload
OrderedStages ==
    << "create_bathymetry_file", "create_grid_file",
       "create_output_depths_file", "create_output_time_resolution_file",
       "set_simulation_run_period", "create_initial_conditions_file",
       "create_absorption_file", "create_forcing_file", "create_inflow_files",
       "create_par_file", "run_simulation", "post_process", "upload" >>

OrderIndex(name) == CHOOSE i \in 1..Len(OrderedStages) : OrderedStages[i] = name

\* C10: process runs the stages one after another in the order above: when
\* a stage has begun, every stage begun before it has returned and every
\* earlier stage of the order has returned; once a stage has raised no
\* stage begins and process raises; the external run begins only if the run
\* flag is set, post-process only after the run has returned, upload only
\* after post-process has returned and only if the upload flag is set.
C10_StagesInOrder ==
    /\ [](/\ \A i \in 1..Len(begun) :
               /\ i < Len(begun) => begun[i] \in returned
               /\ \A j \in 1..Len(OrderedStages) :
                     (/\ begun[i] \in Range(OrderedStages)
                      /\ j < OrderIndex(begun[i]))
                         => \E m \in 1..(i - 1) : begun[m] = OrderedStages[j]
          /\ returned \subseteq Range(begun)
          /\ pstate = "raised" => begun # <<>> /\ begun[Len(begun)] \notin returned
          /\ "run_simulation" \in Range(begun) => pargs.run
          /\ "post_process" \in Range(begun) => "run_simulation" \in returned
          /\ "upload" \in Range(begun) =>
                pargs.upload /\ "post_process" \in returned
          /\ pstate = "done" =>
               /\ Range(begun) = returned
               /\ \A j \in 1..Len(OrderedStages) :
                     OrderedStages[j] \in returned
                        \/ (~pargs.run /\ OrderedStages[j] \in
                               {"run_simulation", "post_process", "upload"})
                        \/ (~pargs.upload /\ OrderedStages[j] = "upload"))
    /\ [][pstate = "raised" => UNCHANGED pipeVars]_vars

C10_Witness ==
    /\ pstate = "done"
    /\ Len(begun) = Len(Stages)
    /\ "upload" \in returned

====
